---- MODULE Spec2Model ----
(***************************************************************************)
(* A model of the stock-data export tool: the TSV ticker reader, the       *)
(* per-ticker fetch with retry, the table stages of csv_exporter and the   *)
(* ratio functions of indicators.                                          *)
(*                                                                         *)
(* Three specifications share the variables:                               *)
(*   Spec       one run of export_data (export_stock_data.py)              *)
(*   SpecRetry  one call of fetch_with_retry with any max_retries          *)
(*   SpecTable  the table stages applied to tables of bounded rows         *)
(***************************************************************************)
EXTENDS Integers, Sequences, FiniteSets, TLC

VARIABLES
    pc,               \* position in export_data / fetch_with_retry / table run
    tsv,              \* what lies at the input path
    limit,            \* the limit argument: None or an integer
    include_etf,      \* the include_etf argument
    tickers,          \* tickers read from the TSV (export_data local)
    idx,              \* index of the ticker the for-loop is at (1-based)
    ticker_data_list, \* export_data local
    fetched,          \* tickers handed to fetch_with_retry, in call order
    max_retries,      \* argument of the running fetch_with_retry
    attempt,          \* loop variable of fetch_with_retry
    history,          \* per fetch_with_retry call: results of fetch_ticker_data
    slept,            \* per fetch_with_retry call: <<attempt, seconds>> sleeps
    result,           \* return value of fetch_with_retry: Pending, None or a dict
    returned,         \* every return of fetch_with_retry so far: ticker and value
    df,               \* the table being built
    output,           \* the output directory: does it exist, has the run
                      \* created it (mkdir), and the files in it by name
    csvFiles,         \* the tables write_csv has written, in call order
    exitStatus        \* process exit status: "running", "0" or "1"

vars == <<pc, tsv, limit, include_etf, tickers, idx, ticker_data_list, fetched,
          max_retries, attempt, history, slept, result, returned, df,
          output, csvFiles, exitStatus>>

----------------------------------------------------------------------------
(* Bounds of the model *)

MaxTsvRows == 2        \* data rows of an input TSV
MaxLimit == 2          \* largest limit argument tried
MaxRetriesArg == 3     \* largest max_retries tried by SpecRetry
MaxTableRows == 2      \* rows of a table SpecTable starts from
MaxClock == 3          \* latest clock tick at which an export happens
TicksPerSecond == 2    \* clock ticks in one second

(* Program constants *)

EXPORT_MAX_RETRIES == 3      \* export_data: fetch_with_retry(ticker, max_retries=3)
TICKER_COLUMN == 1           \* export_data: ticker_column=1
MARKET_COLUMN == 3           \* filter_individual_stocks: df.columns[3]
BACKOFF_BASE == 2            \* fetch_with_retry: wait_time = 2**attempt
PERCENT == 100               \* add_indicators_to_dataframe: earnings_growth * 100
METADATA_MIN_COLUMNS == 8    \* merge_tsv_metadata reads tsv_df.columns[7]

----------------------------------------------------------------------------
(* Values.  A cell of a table is a record with a kind k:                   *)
(*   "null"  a missing value (Python None, polars null)                    *)
(*   "num"   the rational n / d, d > 0, in lowest terms                    *)
(*   "inf", "-inf", "nan"  the IEEE results of a division by zero          *)
(*   "bool"  a boolean, n = 1 for true                                     *)
(*   "str"   a string s                                                    *)

Null == [k |-> "null"]
Inf == [k |-> "inf"]
NegInf == [k |-> "-inf"]
NaN == [k |-> "nan"]
Num(n) == [k |-> "num", n |-> n, d |-> 1]
Bool(b) == [k |-> "bool", n |-> IF b THEN 1 ELSE 0]
Str(s) == [k |-> "str", s |-> s]

IsNull(v) == v.k = "null"
IsNum(v) == v.k = "num"

Abs(n) == IF n < 0 THEN -n ELSE n
Min(a, b) == IF a < b THEN a ELSE b

RECURSIVE GCD(_, _)
GCD(a, b) == IF b = 0 THEN a ELSE GCD(b, a % b)

\* the rational n / d (d # 0) in lowest terms with a positive denominator
Rat(n, d) ==
    LET g == GCD(Abs(n), Abs(d))
        s == IF d < 0 THEN -1 ELSE 1
    IN  [k |-> "num", n |-> (s * n) \div g, d |-> (s * d) \div g]

----------------------------------------------------------------------------
(* polars expressions, element-wise.  Arithmetic and comparison give null  *)
(* when an operand is null; true division follows IEEE 754 on a zero       *)
(* divisor.  The operands the model feeds them are null or finite.         *)

pl_add(a, b) ==
    IF IsNull(a) \/ IsNull(b) THEN Null
    ELSE Rat(a.n * b.d + b.n * a.d, a.d * b.d)

\* a subtraction that reads a null operand as zero
pl_sub_NullAsZero(a, b) ==
    LET x == IF IsNull(a) THEN Num(0) ELSE a
        y == IF IsNull(b) THEN Num(0) ELSE b
    IN  Rat(x.n * y.d - y.n * x.d, x.d * y.d)

pl_sub(a, b) ==
    IF IsNull(a) \/ IsNull(b) THEN Null
    ELSE Rat(a.n * b.d - b.n * a.d, a.d * b.d)

pl_mul(a, b) ==
    IF IsNull(a) \/ IsNull(b) THEN Null
    ELSE Rat(a.n * b.n, a.d * b.d)

pl_truediv(a, b) ==
    IF IsNull(a) \/ IsNull(b) THEN Null
    ELSE IF b.n = 0
         THEN IF a.n > 0 THEN Inf ELSE IF a.n < 0 THEN NegInf ELSE NaN
         ELSE Rat(a.n * b.d, a.d * b.n)

pl_gt(a, b) ==
    IF IsNull(a) \/ IsNull(b) THEN Null
    ELSE Bool(a.n * b.d > b.n * a.d)

pl_lt(a, b) ==
    IF IsNull(a) \/ IsNull(b) THEN Null
    ELSE Bool(a.n * b.d < b.n * a.d)

\* a <= that leaves out the equality
pl_le_Strict(a, b) ==
    IF IsNull(a) \/ IsNull(b) THEN Null
    ELSE Bool(a.n * b.d < b.n * a.d)

pl_le(a, b) ==
    IF IsNull(a) \/ IsNull(b) THEN Null
    ELSE Bool(a.n * b.d <= b.n * a.d)

\* a cast that counts a null as 0
pl_cast_int32_NullAsZero(a) == IF IsNull(a) THEN Num(0) ELSE Num(a.n)

\* Expr.cast(pl.Int32) of a boolean: 1 for true, 0 for false, null for null
pl_cast_int32(a) == IF IsNull(a) THEN Null ELSE Num(a.n)

pl_is_not_null(a) == Bool(~IsNull(a))

\* a conjunction that is null whenever an operand is null
pl_and_NullWins(a, b) ==
    IF IsNull(a) \/ IsNull(b) THEN Null
    ELSE Bool(a.n = 1 /\ b.n = 1)

\* Kleene conjunction: false wins over null
pl_and(a, b) ==
    IF (a.k = "bool" /\ a.n = 0) \/ (b.k = "bool" /\ b.n = 0) THEN Bool(FALSE)
    ELSE IF IsNull(a) \/ IsNull(b) THEN Null
    ELSE Bool(TRUE)

----------------------------------------------------------------------------
(* indicators.py *)

\* a net cash ratio with the subtraction turned round: net debt over market cap
calculate_net_cash_ratio_DebtMinusCash(total_cash, total_debt, market_cap) ==
    pl_truediv(pl_sub(total_debt, total_cash), market_cap)

calculate_net_cash_ratio(total_cash, total_debt, market_cap) ==
    LET net_cash == pl_sub(total_cash, total_debt)
    IN  pl_truediv(net_cash, market_cap)

\* an enterprise value that adds the cash instead of netting it off
calculate_enterprise_value_CashAdded(market_cap, total_debt, total_cash) ==
    pl_add(market_cap, pl_add(total_debt, total_cash))

calculate_enterprise_value(market_cap, total_debt, total_cash) ==
    LET net_debt == pl_sub(total_debt, total_cash)
    IN  pl_add(market_cap, net_debt)

calculate_roic(nopat, invested_capital) ==
    pl_truediv(nopat, invested_capital)

calculate_croic(operating_cash_flow, capex, invested_capital) ==
    LET cash_return == pl_sub(operating_cash_flow, capex)
    IN  pl_truediv(cash_return, invested_capital)

calculate_gross_profitability(gross_profit, total_assets) ==
    pl_truediv(gross_profit, total_assets)

calculate_ev_ebit(enterprise_value, ebit) ==
    pl_truediv(enterprise_value, ebit)

calculate_fcf_yield(operating_cash_flow, capex, market_cap) ==
    LET fcf == pl_sub(operating_cash_flow, capex)
    IN  pl_truediv(fcf, market_cap)

calculate_shareholder_yield(dividends, share_buyback_net, debt_reduction, market_cap) ==
    LET total_shareholder_return ==
            pl_add(pl_add(dividends, share_buyback_net), debt_reduction)
    IN  pl_truediv(total_shareholder_return, market_cap)

calculate_pbr(market_cap, book_value) ==
    pl_truediv(market_cap, book_value)

calculate_ev_fcf(enterprise_value, operating_cash_flow, capex) ==
    LET fcf == pl_sub(operating_cash_flow, capex)
    IN  pl_truediv(enterprise_value, fcf)

\* score = pl.lit(0), then nine times score += (criterion).cast(pl.Int32)
calculate_piotroski_f_score(net_income, operating_cash_flow, roa, roa_prev, ocf_greater_ni, long_term_debt, long_term_debt_prev, current_ratio, current_ratio_prev, shares_outstanding, shares_outstanding_prev, gross_margin, gross_margin_prev, asset_turnover, asset_turnover_prev) ==
    LET s0 == Num(0)
        s1 == pl_add(s0, pl_cast_int32(pl_gt(net_income, Num(0))))
        s2 == pl_add(s1, pl_cast_int32(pl_gt(operating_cash_flow, Num(0))))
        s3 == pl_add(s2, pl_cast_int32(pl_gt(roa, roa_prev)))
        s4 == pl_add(s3, pl_cast_int32(ocf_greater_ni))
        s5 == pl_add(s4, pl_cast_int32(pl_lt(long_term_debt, long_term_debt_prev)))
        s6 == pl_add(s5, pl_cast_int32(pl_gt(current_ratio, current_ratio_prev)))
        s7 == pl_add(s6, pl_cast_int32(pl_le(shares_outstanding, shares_outstanding_prev)))
        s8 == pl_add(s7, pl_cast_int32(pl_gt(gross_margin, gross_margin_prev)))
        s9 == pl_add(s8, pl_cast_int32(pl_gt(asset_turnover, asset_turnover_prev)))
    IN  s9

----------------------------------------------------------------------------
(* The input path.  What lies there is a TSV file with a header and data   *)
(* rows, or nothing, or a directory, or bytes read_csv cannot parse.  A    *)
(* data row holds the cells of column 1 (ticker code) and column 3 (market *)
(* category); a file of fewer columns has null in the cells it lacks.      *)

PRIME == "Prime"        \* the market category "プライム"
ETF_ETN == "ETF/ETN"    \* the market category "ETF・ETN"

None == [k |-> "None"]  \* Python None

TsvCodes == {Str("1301"), Str("1320"), Null}
TsvMarkets == {Str(PRIME), Str(ETF_ETN), Null}
TsvWidths == {1, 3, 8}

TsvRow(w) ==
    [code : IF w > TICKER_COLUMN THEN TsvCodes ELSE {Null},
     market : IF w > MARKET_COLUMN THEN TsvMarkets ELSE {Null}]

TsvFiles ==
    UNION {UNION {{[kind |-> "file", ncols |-> w, rows |-> r] : r \in [1..m -> TsvRow(w)]}
                  : m \in 0..MaxTsvRows}
           : w \in TsvWidths}

Missing == [kind |-> "missing", ncols |-> 0, rows |-> <<>>]
Directory == [kind |-> "directory", ncols |-> 0, rows |-> <<>>]
Garbled == [kind |-> "garbled", ncols |-> 0, rows |-> <<>>]

TsvInputs == TsvFiles \cup {Missing, Directory, Garbled}

\* Path.exists() and Path.is_file()
path_exists(t) == t.kind # "missing"
path_is_file(t) == t.kind \in {"file", "garbled"}

\* pl.read_csv raises unless the path holds a parsable file
read_csv_raises(t) == t.kind # "file"

\* NotEtfEtn with the comparison lost: ETF/ETN rows pass the filter
NotEtfEtn_KeepsAll(row) == ~IsNull(row.market)

\* pl.col(market_col) != "ETF・ETN" is null on a null cell, and filter keeps
\* only the rows where the predicate is true
NotEtfEtn(row) == ~IsNull(row.market) /\ row.market.s # ETF_ETN

filter_individual_stocks(t) ==
    IF ~(t.ncols > MARKET_COLUMN) THEN t
    ELSE [t EXCEPT !.rows = SelectSeq(t.rows, NotEtfEtn)]

HasCode(row) == ~IsNull(row.code)

\* df[column_name].drop_nulls().to_list()
TickerCodes(rows) ==
    LET kept == SelectSeq(rows, HasCode)
    IN  [i \in 1..Len(kept) |-> kept[i].code.s]

\* Slice cutting one short: tickers[:n - 1]
Slice_OffByOne(s, n) == SubSeq(s, 1, Min(n - 1, Len(s)))

\* tickers[:n] for n > 0
Slice(s, n) == SubSeq(s, 1, Min(n, Len(s)))

read_tickers_from_tsv(t, ticker_column, lim, exclude_etf) ==
    IF read_csv_raises(t) THEN <<>>
    ELSE LET filtered == IF exclude_etf THEN filter_individual_stocks(t) ELSE t
         IN  IF ticker_column >= filtered.ncols THEN <<>>
             ELSE LET all == TickerCodes(filtered.rows)
                  IN  IF lim # None /\ lim.n > 0 THEN Slice(all, lim.n) ELSE all

----------------------------------------------------------------------------
(* data_fetcher.py.  A Python dict is a function from its keys; the empty  *)
(* dict is the function of empty domain.                                   *)

EmptyDict == [f \in {} |-> Null]

\* truth value of a dict or None in "if data:"
Truthy(d) == d # None /\ DOMAIN d # {}

\* the keys fetch_ticker_data reads from stock.info, under the names it stores them
InfoFields ==
    <<"market_cap", "total_cash", "total_debt", "total_assets", "book_value",
      "operating_cash_flow", "capex", "ebit", "gross_profit", "net_income",
      "dividend_yield", "trailing_pe", "total_revenue", "earnings_growth",
      "payout_ratio">>

Range(seq) == {seq[i] : i \in DOMAIN seq}

\* What the provider answers to stock.info: an exception, or the info mapping.
InfoRaises == [raises |-> TRUE]
InfoOf(info) == [raises |-> FALSE, info |-> info]

\* str.isdigit() and int(): the strings of digits among the ticker codes,
\* with the integers they spell
DecimalValue ==
    ("1301" :> 1301) @@ ("1320" :> 1320) @@ ("7203" :> 7203) @@ ("9984" :> 9984)

isdigit(s) == s \in DOMAIN DecimalValue

\* the symbol the provider is asked for: ".T" is appended to a code of digits
yf_ticker(ticker) == IF isdigit(ticker) THEN ticker \o ".T" ELSE ticker

\* fetch_ticker_data storing the symbol asked for in place of the code given
fetch_ticker_data_SuffixKept(ticker, outcome) ==
    IF outcome.raises THEN EmptyDict
    ELSE LET data == [f \in {"ticker"} \cup Range(InfoFields) |->
                         IF f = "ticker" THEN Str(yf_ticker(ticker)) ELSE outcome.info[f]]
             non_null_values == Cardinality({f \in DOMAIN data : ~IsNull(data[f])})
         IN  IF non_null_values > 1 THEN data ELSE EmptyDict

fetch_ticker_data(ticker, outcome) ==
    IF outcome.raises THEN EmptyDict
    ELSE LET data == [f \in {"ticker"} \cup Range(InfoFields) |->
                         IF f = "ticker" THEN Str(ticker) ELSE outcome.info[f]]
             non_null_values == Cardinality({f \in DOMAIN data : ~IsNull(data[f])})
         IN  IF non_null_values > 1 THEN data ELSE EmptyDict

\* What the provider answers to stock.earnings: an exception, None, or a frame
\* indexed by year that may or may not have an Earnings column.
EarningsRaises == [raises |-> TRUE]
EarningsNone == [raises |-> FALSE, frame |-> None]
EarningsFrame(has, rows) ==
    [raises |-> FALSE, frame |-> [has_earnings |-> has, rows |-> rows]]

\* earnings.sort_index(ascending=False): rows by year, latest first
sort_index_desc(rows) ==
    LET at(j) == CHOOSE i \in DOMAIN rows :
                     Cardinality({h \in DOMAIN rows : rows[h].year > rows[i].year}) = j - 1
    IN  [j \in 1..Len(rows) |-> rows[at(j)]]

NoEarnings == [earnings_y0 |-> Null, earnings_y1 |-> Null, earnings_y2 |-> Null]

fetch_earnings_history(ticker, outcome) ==
    IF outcome.raises THEN NoEarnings
    ELSE IF outcome.frame = None \/ outcome.frame.rows = <<>> THEN NoEarnings
    ELSE LET earnings_sorted == sort_index_desc(outcome.frame.rows)
             earnings_list ==
                 IF outcome.frame.has_earnings
                 THEN [i \in 1..Len(earnings_sorted) |-> earnings_sorted[i].earnings]
                 ELSE <<>>
         IN  [earnings_y0 |-> IF Len(earnings_list) > 0 THEN earnings_list[1] ELSE Null,
              earnings_y1 |-> IF Len(earnings_list) > 1 THEN earnings_list[2] ELSE Null,
              earnings_y2 |-> IF Len(earnings_list) > 2 THEN earnings_list[3] ELSE Null]

\* data.update(earnings_data)
dict_update(d, e) ==
    [f \in DOMAIN d \cup DOMAIN e |-> IF f \in DOMAIN e THEN e[f] ELSE d[f]]

----------------------------------------------------------------------------
(* csv_exporter.py: the table stages.  A table is its column names in      *)
(* order and its rows, each row a function from the column names to cells. *)

EmptyTable == [columns |-> <<>>, rows |-> <<>>]

\* df.is_empty(): no rows
is_empty(t) == t.rows = <<>>

EarningsFields == <<"earnings_y0", "earnings_y1", "earnings_y2">>

\* the insertion order of the keys of a fetched dict
KeyOrder == <<"ticker">> \o InfoFields \o EarningsFields

InDomainOf(d) == LET In(f) == f \in DOMAIN d IN SelectSeq(KeyOrder, In)

build_dataframe(list) ==
    IF list = <<>> THEN EmptyTable
    ELSE LET valid_data == SelectSeq(list, Truthy)
         IN  IF valid_data = <<>> THEN EmptyTable
             ELSE [columns |-> InDomainOf(valid_data[1]), rows |-> valid_data]

\* df.with_columns([...]): a named column is replaced where it stands or
\* appended; cells[i][name] is the value in row i of the expression aliased
\* to name
with_columns(t, names, cells) ==
    LET IsNew(c) == c \notin Range(t.columns)
        cols == t.columns \o SelectSeq(names, IsNew)
    IN  [columns |-> cols,
         rows |-> [i \in 1..Len(t.rows) |->
                      [c \in Range(cols) |->
                          IF c \in Range(names) THEN cells[i][c]
                          ELSE t.rows[i][c]]]]

MetadataColumns == <<"stock_name", "market_category", "sector_33", "sector_17">>

\* the metadata cells of TSV row i: columns 2, 3, 5 and 7, renamed
MetadataOf(t, i) ==
    [stock_name |-> [k |-> "str", s |-> "stock_name", row |-> i],
     market_category |-> t.rows[i].market,
     sector_33 |-> [k |-> "str", s |-> "sector_33", row |-> i],
     sector_17 |-> [k |-> "str", s |-> "sector_17", row |-> i]]

NullMetadata == [c \in Range(MetadataColumns) |-> Null]

RECURSIVE Flatten(_)
Flatten(ss) == IF ss = <<>> THEN <<>> ELSE Head(ss) \o Flatten(Tail(ss))

\* df.join(tsv_metadata, left_on="ticker", right_on=ticker_col_name, how="left")
left_join(t, meta) ==
    LET cols == t.columns \o MetadataColumns
        Joined(row) ==
            LET hits == {i \in 1..Len(meta.rows) :
                            /\ ~IsNull(meta.rows[i].code)
                            /\ meta.rows[i].code = row.ticker}
                at(j) == CHOOSE i \in hits : Cardinality({h \in hits : h < i}) = j - 1
                With(m) == [c \in Range(cols) |->
                               IF c \in Range(MetadataColumns) THEN m[c] ELSE row[c]]
            IN  IF hits = {} THEN <<With(NullMetadata)>>
                ELSE [j \in 1..Cardinality(hits) |-> With(MetadataOf(meta, at(j)))]
    IN  [columns |-> cols,
         rows |-> Flatten([i \in 1..Len(t.rows) |-> Joined(t.rows[i])])]

merge_tsv_metadata(t, tsv_path) ==
    IF is_empty(t) THEN t
    ELSE IF read_csv_raises(tsv_path) THEN t
    ELSE IF tsv_path.ncols < METADATA_MIN_COLUMNS THEN t
    ELSE left_join(t, tsv_path)

IndicatorColumns1 ==
    <<"net_cash_ratio", "enterprise_value", "gross_profitability", "fcf_yield", "pbr">>
IndicatorColumns2 == <<"ev_ebit", "ev_fcf">>
IndicatorColumns3 == <<"psr", "peg_ratio">>

IndicatorInputs1 ==
    {"total_cash", "total_debt", "market_cap", "gross_profit", "total_assets",
     "operating_cash_flow", "capex", "book_value"}
IndicatorInputs2 == {"enterprise_value", "ebit", "operating_cash_flow", "capex"}
IndicatorInputs3 == {"market_cap", "total_revenue", "trailing_pe", "earnings_growth"}

IndicatorCell1(row, name) ==
    CASE name = "net_cash_ratio" ->
             calculate_net_cash_ratio(row.total_cash, row.total_debt, row.market_cap)
      [] name = "enterprise_value" ->
             calculate_enterprise_value(row.market_cap, row.total_debt, row.total_cash)
      [] name = "gross_profitability" ->
             calculate_gross_profitability(row.gross_profit, row.total_assets)
      [] name = "fcf_yield" ->
             calculate_fcf_yield(row.operating_cash_flow, row.capex, row.market_cap)
      [] name = "pbr" -> calculate_pbr(row.market_cap, row.book_value)

IndicatorCell2(row, name) ==
    CASE name = "ev_ebit" -> calculate_ev_ebit(row.enterprise_value, row.ebit)
      [] name = "ev_fcf" ->
             calculate_ev_fcf(row.enterprise_value, row.operating_cash_flow, row.capex)

IndicatorCell3(row, name) ==
    CASE name = "psr" -> pl_truediv(row.market_cap, row.total_revenue)
      [] name = "peg_ratio" ->
             pl_truediv(row.trailing_pe, pl_mul(row.earnings_growth, Num(PERCENT)))

\* add_indicators_to_dataframe returning from its except the table it had
\* got to, not the table it was given
add_indicators_to_dataframe_KeepsPartial(t) ==
    IF is_empty(t) THEN t
    ELSE LET First ==
                 with_columns(t, IndicatorColumns1,
                     [i \in 1..Len(t.rows) |->
                         [c \in Range(IndicatorColumns1) |-> IndicatorCell1(t.rows[i], c)]])
             Second(df_with_ev) ==
                 with_columns(df_with_ev, IndicatorColumns2,
                     [i \in 1..Len(df_with_ev.rows) |->
                         [c \in Range(IndicatorColumns2) |->
                             IndicatorCell2(df_with_ev.rows[i], c)]])
             Third(df_with_ev_ratios) ==
                 with_columns(df_with_ev_ratios, IndicatorColumns3,
                     [i \in 1..Len(df_with_ev_ratios.rows) |->
                         [c \in Range(IndicatorColumns3) |->
                             IndicatorCell3(df_with_ev_ratios.rows[i], c)]])
             AfterSecond(df_with_ev_ratios) ==
                 IF ~(IndicatorInputs3 \subseteq Range(df_with_ev_ratios.columns))
                 THEN df_with_ev_ratios
                 ELSE Third(df_with_ev_ratios)
             AfterFirst(df_with_ev) ==
                 IF ~(IndicatorInputs2 \subseteq Range(df_with_ev.columns)) THEN df_with_ev
                 ELSE CHOOSE df_with_indicators \in
                          {AfterSecond(x) : x \in {Second(df_with_ev)}} : TRUE
         IN  IF ~(IndicatorInputs1 \subseteq Range(t.columns)) THEN t
             ELSE CHOOSE df_with_indicators \in {AfterFirst(x) : x \in {First}} : TRUE

\* a pl.col of a column the table lacks raises, and the except returns df;
\* df_with_ev and df_with_ev_ratios are bound once each, as the code binds
\* them, and read from then on
add_indicators_to_dataframe(t) ==
    IF is_empty(t) THEN t
    ELSE LET First ==
                 with_columns(t, IndicatorColumns1,
                     [i \in 1..Len(t.rows) |->
                         [c \in Range(IndicatorColumns1) |-> IndicatorCell1(t.rows[i], c)]])
             Second(df_with_ev) ==
                 with_columns(df_with_ev, IndicatorColumns2,
                     [i \in 1..Len(df_with_ev.rows) |->
                         [c \in Range(IndicatorColumns2) |->
                             IndicatorCell2(df_with_ev.rows[i], c)]])
             Third(df_with_ev_ratios) ==
                 with_columns(df_with_ev_ratios, IndicatorColumns3,
                     [i \in 1..Len(df_with_ev_ratios.rows) |->
                         [c \in Range(IndicatorColumns3) |->
                             IndicatorCell3(df_with_ev_ratios.rows[i], c)]])
             AfterSecond(df_with_ev_ratios) ==
                 IF ~(IndicatorInputs3 \subseteq Range(df_with_ev_ratios.columns)) THEN t
                 ELSE Third(df_with_ev_ratios)
             AfterFirst(df_with_ev) ==
                 IF ~(IndicatorInputs2 \subseteq Range(df_with_ev.columns)) THEN t
                 ELSE CHOOSE df_with_indicators \in
                          {AfterSecond(x) : x \in {Second(df_with_ev)}} : TRUE
         IN  IF ~(IndicatorInputs1 \subseteq Range(t.columns)) THEN t
             ELSE CHOOSE df_with_indicators \in {AfterFirst(x) : x \in {First}} : TRUE

FlagColumn == <<"consecutive_earnings_growth">>

consecutive_earnings_growth(row, name) ==
    pl_and(pl_and(pl_and(pl_and(pl_is_not_null(row.earnings_y0),
                                pl_is_not_null(row.earnings_y1)),
                         pl_is_not_null(row.earnings_y2)),
                  pl_gt(row.earnings_y0, row.earnings_y1)),
           pl_gt(row.earnings_y1, row.earnings_y2))

add_earnings_flags(t) ==
    IF is_empty(t) THEN t
    ELSE IF ~(Range(EarningsFields) \subseteq Range(t.columns)) THEN t
    ELSE with_columns(t, FlagColumn,
                 [i \in 1..Len(t.rows) |->
                     [c \in Range(FlagColumn) |-> consecutive_earnings_growth(t.rows[i], c)]])

\* a reordering that moves only ticker to the front
reorder_columns_TickerOnly(t) ==
    IF is_empty(t) THEN t
    ELSE LET IsTicker(c) == c = "ticker"
             NotTicker(c) == c # "ticker"
             new_order == SelectSeq(t.columns, IsTicker) \o SelectSeq(t.columns, NotTicker)
         IN  [columns |-> new_order,
              rows |-> [i \in 1..Len(t.rows) |->
                           [c \in Range(new_order) |-> t.rows[i][c]]]]

\* a reordering that keeps the grouped columns only
reorder_columns_GroupedOnly(t) ==
    IF is_empty(t) THEN t
    ELSE LET Present(c) == c \in Range(t.columns)
             existing_priority == SelectSeq(<<"ticker">>, Present)
             existing_metadata == SelectSeq(MetadataColumns, Present)
             existing_dividend == SelectSeq(<<"dividend_yield", "payout_ratio">>, Present)
             existing_earnings == SelectSeq(EarningsFields \o FlagColumn, Present)
             existing_valuation == SelectSeq(<<"trailing_pe", "psr", "peg_ratio">>, Present)
             new_order == existing_priority \o existing_metadata \o existing_dividend
                              \o existing_earnings \o existing_valuation
         IN  [columns |-> new_order,
              rows |-> [i \in 1..Len(t.rows) |->
                           [c \in Range(new_order) |-> t.rows[i][c]]]]

reorder_columns(t) ==
    IF is_empty(t) THEN t
    ELSE LET Present(c) == c \in Range(t.columns)
             existing_priority == SelectSeq(<<"ticker">>, Present)
             existing_metadata == SelectSeq(MetadataColumns, Present)
             existing_dividend == SelectSeq(<<"dividend_yield", "payout_ratio">>, Present)
             existing_earnings == SelectSeq(EarningsFields \o FlagColumn, Present)
             existing_valuation == SelectSeq(<<"trailing_pe", "psr", "peg_ratio">>, Present)
             grouped == existing_priority \o existing_metadata \o existing_dividend
                            \o existing_earnings \o existing_valuation
             Other(c) == c \notin Range(grouped)
             other_cols == SelectSeq(t.columns, Other)
             new_order == grouped \o other_cols
         IN  [columns |-> new_order,
              rows |-> [i \in 1..Len(t.rows) |->
                           [c \in Range(new_order) |-> t.rows[i][c]]]]

----------------------------------------------------------------------------
(* indicators.py: add_fundamental_indicators, on a table that has the      *)
(* columns it reads                                                        *)

EngineColumns ==
    <<"net_cash_ratio", "roic", "croic", "gross_profitability", "ev_ebit",
      "fcf_yield", "pbr", "ev_fcf">>

EnterpriseValueCell(row, name) ==
    calculate_enterprise_value(row.market_cap, row.total_debt, row.total_cash)

EngineCell(row, name) ==
    CASE name = "net_cash_ratio" ->
             calculate_net_cash_ratio(row.total_cash, row.total_debt, row.market_cap)
      [] name = "roic" -> calculate_roic(row.nopat, row.invested_capital)
      [] name = "croic" ->
             calculate_croic(row.operating_cash_flow, row.capex, row.invested_capital)
      [] name = "gross_profitability" ->
             calculate_gross_profitability(row.gross_profit, row.total_assets)
      [] name = "ev_ebit" -> calculate_ev_ebit(row.enterprise_value, row.ebit)
      [] name = "fcf_yield" ->
             calculate_fcf_yield(row.operating_cash_flow, row.capex, row.market_cap)
      [] name = "pbr" -> calculate_pbr(row.market_cap, row.book_value)
      [] name = "ev_fcf" ->
             calculate_ev_fcf(row.enterprise_value, row.operating_cash_flow, row.capex)

\* the ratios computed from the table as it came in: an enterprise_value
\* column that is already there is the one ev_ebit and ev_fcf read
add_fundamental_indicators_StaleEv(t) ==
    LET with_ev ==
            with_columns(t, <<"enterprise_value">>,
                [i \in 1..Len(t.rows) |->
                    [c \in Range(<<"enterprise_value">>) |-> EnterpriseValueCell(t.rows[i], c)]])
        read == IF "enterprise_value" \in Range(t.columns) THEN t ELSE with_ev
    IN  with_columns(with_ev, EngineColumns,
            [i \in 1..Len(read.rows) |->
                [c \in Range(EngineColumns) |-> EngineCell(read.rows[i], c)]])

add_fundamental_indicators(t) ==
    LET with_ev == with_columns(t, <<"enterprise_value">>,
                 [i \in 1..Len(t.rows) |->
                     [c \in Range(<<"enterprise_value">>) |-> EnterpriseValueCell(t.rows[i], c)]])
    IN  with_columns(with_ev, EngineColumns,
                 [i \in 1..Len(with_ev.rows) |->
                     [c \in Range(EngineColumns) |-> EngineCell(with_ev.rows[i], c)]])

ShareholderYieldCell(row, name) ==
    calculate_shareholder_yield(row.dividends, row.share_buyback_net,
                                row.debt_reduction, row.market_cap)

----------------------------------------------------------------------------
(* What the provider may answer in a run *)

BaseInfo ==
    [market_cap |-> Num(10), total_cash |-> Num(5), total_debt |-> Num(3),
     total_assets |-> Num(20), book_value |-> Num(4),
     operating_cash_flow |-> Num(6), capex |-> Num(2), ebit |-> Num(2),
     gross_profit |-> Num(8), net_income |-> Num(3), dividend_yield |-> Num(1),
     trailing_pe |-> Num(12), total_revenue |-> Num(5),
     earnings_growth |-> Num(1), payout_ratio |-> Num(1)]

AllNullInfo == [f \in Range(InfoFields) |-> Null]

\* an info with a single field, and that field zero
SparseInfo == [AllNullInfo EXCEPT !.market_cap = Num(0)]

InfoOutcomes == {InfoRaises, InfoOf(AllNullInfo), InfoOf(BaseInfo), InfoOf(SparseInfo)}

\* the answers tried in a whole run of export_data
RunInfoOutcomes == {InfoRaises, InfoOf(BaseInfo)}

EarningsOutcomes ==
    {EarningsRaises,
     EarningsNone,
     EarningsFrame(TRUE, <<[year |-> 2022, earnings |-> Num(2)],
                           [year |-> 2023, earnings |-> Num(3)],
                           [year |-> 2021, earnings |-> Num(1)]>>),
     EarningsFrame(TRUE, <<[year |-> 2023, earnings |-> Num(1)],
                           [year |-> 2022, earnings |-> Num(1)]>>)}

RunEarningsOutcomes ==
    {EarningsRaises,
     EarningsFrame(TRUE, <<[year |-> 2022, earnings |-> Num(2)],
                           [year |-> 2023, earnings |-> Num(3)],
                           [year |-> 2021, earnings |-> Num(1)]>>)}

Pending == [k |-> "pending"]

\* an output directory that does not exist
NoOutput == [exists |-> FALSE, made |-> FALSE, files |-> [n \in {} |-> EmptyTable]]

\* the limit argument: None or an integer
Limits == {None} \cup {Num(n) : n \in -1..MaxLimit}

----------------------------------------------------------------------------
(* export_stock_data.py: one run of export_data *)

Init ==
    /\ pc = "validate"
    /\ tsv \in TsvInputs
    /\ limit \in Limits
    /\ include_etf \in BOOLEAN
    /\ tickers = <<>>
    /\ idx = 0
    /\ ticker_data_list = <<>>
    /\ fetched = <<>>
    /\ max_retries = 0
    /\ attempt = 0
    /\ history = <<>>
    /\ slept = <<>>
    /\ result = Pending
    /\ returned = <<>>
    /\ df = EmptyTable
    /\ \E exists \in BOOLEAN : output = [NoOutput EXCEPT !.exists = exists]
    /\ csvFiles = <<>>
    /\ exitStatus = "running"

\* sys.exit(1)
sys_exit_1 ==
    /\ pc' = "exit"
    /\ exitStatus' = "1"

\* ValidateInput without the check of limit
ValidateInput_NoLimitCheck ==
    /\ pc = "validate"
    /\ IF ~path_exists(tsv) THEN sys_exit_1
       ELSE IF ~path_is_file(tsv) THEN sys_exit_1
       ELSE pc' = "read" /\ UNCHANGED exitStatus
    /\ UNCHANGED <<tsv, limit, include_etf, tickers, idx, ticker_data_list, fetched,
                   max_retries, attempt, history, slept, result, returned, df, output,
                   csvFiles>>

\* lines 48-61: the checks on the input path and on limit
ValidateInput ==
    /\ pc = "validate"
    /\ IF ~path_exists(tsv) THEN sys_exit_1
       ELSE IF ~path_is_file(tsv) THEN sys_exit_1
       ELSE IF limit # None /\ limit.n <= 0 THEN sys_exit_1
       ELSE pc' = "read" /\ UNCHANGED exitStatus
    /\ UNCHANGED <<tsv, limit, include_etf, tickers, idx, ticker_data_list, fetched,
                   max_retries, attempt, history, slept, result, returned, df, output,
                   csvFiles>>

\* lines 63-74: read the ticker list, leave when it is empty
ReadTickers ==
    /\ pc = "read"
    /\ tickers' = read_tickers_from_tsv(tsv, TICKER_COLUMN, limit, ~include_etf)
    /\ IF tickers' = <<>> THEN sys_exit_1 /\ UNCHANGED idx
       ELSE pc' = "loop" /\ idx' = 1 /\ UNCHANGED exitStatus
    /\ UNCHANGED <<tsv, limit, include_etf, ticker_data_list, fetched,
                   max_retries, attempt, history, slept, result, returned, df, output,
                   csvFiles>>

\* the loop walking the ticker list from its end
CallFetchWithRetry_FromEnd ==
    /\ pc = "loop"
    /\ idx <= Len(tickers)
    /\ fetched' = Append(fetched, tickers[Len(tickers) + 1 - idx])
    /\ max_retries' = EXPORT_MAX_RETRIES
    /\ attempt' = 0
    /\ history' = <<>>
    /\ slept' = <<>>
    /\ result' = Pending
    /\ pc' = "fetch_with_retry"
    /\ UNCHANGED <<tsv, limit, include_etf, tickers, idx, ticker_data_list, returned,
                   df, output, csvFiles, exitStatus>>

\* lines 77-78: the loop takes the next ticker and calls fetch_with_retry
CallFetchWithRetry ==
    /\ pc = "loop"
    /\ idx <= Len(tickers)
    /\ fetched' = Append(fetched, tickers[idx])
    /\ max_retries' = EXPORT_MAX_RETRIES
    /\ attempt' = 0
    /\ history' = <<>>
    /\ slept' = <<>>
    /\ result' = Pending
    /\ pc' = "fetch_with_retry"
    /\ UNCHANGED <<tsv, limit, include_etf, tickers, idx, ticker_data_list, returned,
                   df, output, csvFiles, exitStatus>>

----------------------------------------------------------------------------
(* data_fetcher.py: fetch_with_retry, one loop iteration per step *)

\* fetch_ticker_data wraps its whole body in try / except Exception and
\* returns {} from the handler: no provider answer makes it raise
fetch_ticker_data_raises(ticker, outcome) == FALSE

\* the entry of history for one call of fetch_ticker_data
Call(ticker, outcome, data) ==
    [symbol |-> yf_ticker(ticker),
     provider |-> IF outcome.raises THEN "raises" ELSE "answers",
     info |-> IF outcome.raises THEN None ELSE outcome.info,
     data |-> data]

\* LoopBody with the success test lost: data never ends the loop
LoopBody_NoEarlyReturn(raised, data, att, max) ==
    IF raised
    THEN IF att < max - 1
         THEN [op |-> "sleep", wait |-> BACKOFF_BASE^att]
         ELSE [op |-> "return", value |-> None]
    ELSE [op |-> "continue"]

\* LoopBody returning whatever the call gave, an empty dict too
LoopBody_ReturnsAnyData(raised, data, att, max) ==
    IF raised
    THEN IF att < max - 1
         THEN [op |-> "sleep", wait |-> BACKOFF_BASE^att]
         ELSE [op |-> "return", value |-> None]
    ELSE [op |-> "return", value |-> data]

\* LoopBody giving up on the first empty dict instead of trying again
LoopBody_GiveUpOnEmpty(raised, data, att, max) ==
    IF raised
    THEN IF att < max - 1
         THEN [op |-> "sleep", wait |-> BACKOFF_BASE^att]
         ELSE [op |-> "return", value |-> None]
    ELSE IF Truthy(data)
         THEN [op |-> "return", value |-> data]
         ELSE [op |-> "return", value |-> None]

\* What one iteration does after the call, lines 98-111: return a value,
\* sleep and go on, or go on at once.
LoopBody(raised, data, att, max) ==
    IF raised
    THEN IF att < max - 1
         THEN [op |-> "sleep", wait |-> BACKOFF_BASE^att]
         ELSE [op |-> "return", value |-> None]
    ELSE IF Truthy(data)
         THEN [op |-> "return", value |-> data]
         ELSE [op |-> "continue"]

\* lines 96-111: one iteration of "for attempt in range(max_retries)"
FetchAttemptOn(outcomes) ==
    /\ pc = "fetch_with_retry"
    /\ attempt < max_retries
    /\ \E outcome \in outcomes :
          LET ticker == fetched[Len(fetched)]
              raised == fetch_ticker_data_raises(ticker, outcome)
              data == IF raised THEN None ELSE fetch_ticker_data(ticker, outcome)
              todo == LoopBody(raised, data, attempt, max_retries)
          IN  /\ history' = Append(history, Call(ticker, outcome, data))
              /\ IF todo.op = "return"
                 THEN /\ result' = todo.value
                      /\ returned' = Append(returned, [ticker |-> ticker, data |-> todo.value])
                      /\ pc' = "fetch_returned"
                      /\ UNCHANGED <<slept, attempt>>
                 ELSE /\ slept' = IF todo.op = "sleep"
                                  THEN Append(slept, <<attempt, todo.wait>>)
                                  ELSE slept
                      /\ attempt' = attempt + 1
                      /\ UNCHANGED <<result, returned, pc>>
    /\ UNCHANGED <<tsv, limit, include_etf, tickers, idx, ticker_data_list, fetched,
                   max_retries, df, output, csvFiles, exitStatus>>

FetchAttempt == FetchAttemptOn(RunInfoOutcomes)

\* lines 113-115: the loop is over, every call returned an empty dict
RetriesExhausted ==
    /\ pc = "fetch_with_retry"
    /\ ~(attempt < max_retries)
    /\ result' = None
    /\ returned' = Append(returned, [ticker |-> fetched[Len(fetched)], data |-> None])
    /\ pc' = "fetch_returned"
    /\ UNCHANGED <<tsv, limit, include_etf, tickers, idx, ticker_data_list, fetched,
                   max_retries, attempt, history, slept, df, output, csvFiles,
                   exitStatus>>

----------------------------------------------------------------------------
(* export_stock_data.py, continued *)

\* KeepFetched passing over a ticker whose earnings history has nothing
KeepFetched_DropsWithoutEarnings ==
    /\ pc = "fetch_returned"
    /\ idx > 0
    /\ IF Truthy(result)
       THEN \E outcome \in RunEarningsOutcomes :
               LET earnings_data == fetch_earnings_history(tickers[idx], outcome)
               IN  ticker_data_list' =
                       IF earnings_data = NoEarnings THEN ticker_data_list
                       ELSE Append(ticker_data_list, dict_update(result, earnings_data))
       ELSE UNCHANGED ticker_data_list
    /\ idx' = idx + 1
    /\ pc' = "loop"
    /\ attempt' = 0
    /\ history' = <<>>
    /\ slept' = <<>>
    /\ result' = Pending
    /\ UNCHANGED <<tsv, limit, include_etf, tickers, fetched, max_retries, returned,
                   df, output, csvFiles, exitStatus>>

\* lines 79-84: a ticker with data gets its earnings history and a place in
\* ticker_data_list; a ticker without is passed over
KeepFetched ==
    /\ pc = "fetch_returned"
    /\ idx > 0
    /\ IF Truthy(result)
       THEN \E outcome \in RunEarningsOutcomes :
               LET earnings_data == fetch_earnings_history(tickers[idx], outcome)
               IN  ticker_data_list' =
                       Append(ticker_data_list, dict_update(result, earnings_data))
       ELSE UNCHANGED ticker_data_list
    /\ idx' = idx + 1
    /\ pc' = "loop"
    /\ attempt' = 0
    /\ history' = <<>>
    /\ slept' = <<>>
    /\ result' = Pending
    /\ UNCHANGED <<tsv, limit, include_etf, tickers, fetched, max_retries, returned,
                   df, output, csvFiles, exitStatus>>

\* CheckFetched with the check after the export: an empty table is written,
\* then the run leaves with status 1
CheckFetched_ExportsFirst ==
    /\ pc = "loop"
    /\ idx > Len(tickers)
    /\ IF ticker_data_list = <<>>
       THEN /\ sys_exit_1
            /\ output' = [output EXCEPT !.made = TRUE]
            /\ csvFiles' = Append(csvFiles, EmptyTable)
       ELSE pc' = "build" /\ UNCHANGED <<exitStatus, output, csvFiles>>
    /\ UNCHANGED <<tsv, limit, include_etf, tickers, idx, ticker_data_list, fetched,
                   max_retries, attempt, history, slept, result, returned, df>>

\* lines 86-92: after the loop, leave when nothing was fetched
CheckFetched ==
    /\ pc = "loop"
    /\ idx > Len(tickers)
    /\ IF ticker_data_list = <<>> THEN sys_exit_1
       ELSE pc' = "build" /\ UNCHANGED exitStatus
    /\ UNCHANGED <<tsv, limit, include_etf, tickers, idx, ticker_data_list, fetched,
                   max_retries, attempt, history, slept, result, returned, df, output,
                   csvFiles>>

\* a table stage: df becomes Stage(df) and the run moves on
Stage(at, table, next) ==
    /\ pc = at
    /\ df' = table
    /\ pc' = next
    /\ UNCHANGED <<tsv, limit, include_etf, tickers, idx, ticker_data_list, fetched,
                   max_retries, attempt, history, slept, result, returned, output,
                   csvFiles, exitStatus>>

\* line 95
BuildDataframe == Stage("build", build_dataframe(ticker_data_list), "merge")

\* the metadata merge without its except: a failed merge ends the run
MergeTsvMetadata_Escalates ==
    IF read_csv_raises(tsv) \/ tsv.ncols < METADATA_MIN_COLUMNS
    THEN /\ pc = "merge"
         /\ sys_exit_1
         /\ UNCHANGED <<tsv, limit, include_etf, tickers, idx, ticker_data_list, fetched,
                        max_retries, attempt, history, slept, result, returned, df,
                        output, csvFiles>>
    ELSE Stage("merge", merge_tsv_metadata(df, tsv), "indicators")

\* line 98
MergeTsvMetadata == Stage("merge", merge_tsv_metadata(df, tsv), "indicators")

\* line 101
AddIndicators == Stage("indicators", add_indicators_to_dataframe(df), "flags")

\* line 104
AddEarningsFlags == Stage("flags", add_earnings_flags(df), "reorder")

\* line 107
ReorderColumns == Stage("reorder", reorder_columns(df), "export")

\* datetime.now().strftime("%Y%m%d_%H%M%S"): the clock cut to whole seconds
strftime(now) == now \div TicksPerSecond

\* f"stock_data_{timestamp}.csv"
FileName(timestamp) == [stem |-> "stock_data_", timestamp |-> timestamp, suffix |-> ".csv"]

\* ExportToCsv without the mkdir: the file is written only into a directory
\* that is already there
ExportToCsv_NoMkdir ==
    /\ pc = "export"
    /\ \E now \in 0..MaxClock :
          LET filename == FileName(strftime(now))
          IN  output' = IF output.exists
                        THEN [output EXCEPT !.files =
                                 [n \in DOMAIN output.files \cup {filename} |->
                                     IF n = filename THEN df ELSE output.files[n]]]
                        ELSE output
    /\ csvFiles' = IF output.exists THEN Append(csvFiles, df) ELSE csvFiles
    /\ pc' = "done"
    /\ exitStatus' = "0"
    /\ UNCHANGED <<tsv, limit, include_etf, tickers, idx, ticker_data_list, fetched,
                   max_retries, attempt, history, slept, result, returned, df>>

\* lines 110-113 with csv_exporter.export_to_csv: mkdir(parents=True,
\* exist_ok=True), write the file under the name of the current second
\* (write_csv replaces a file of that name), return normally
ExportToCsv ==
    /\ pc = "export"
    /\ \E now \in 0..MaxClock :
          LET filename == FileName(strftime(now))
          IN  output' = [exists |-> TRUE,
                         made |-> ~output.exists,
                         files |-> [n \in DOMAIN output.files \cup {filename} |->
                                       IF n = filename THEN df ELSE output.files[n]]]
    /\ csvFiles' = Append(csvFiles, df)
    /\ pc' = "done"
    /\ exitStatus' = "0"
    /\ UNCHANGED <<tsv, limit, include_etf, tickers, idx, ticker_data_list, fetched,
                   max_retries, attempt, history, slept, result, returned, df>>

Next ==
    \/ ValidateInput
    \/ ReadTickers
    \/ CallFetchWithRetry
    \/ FetchAttempt
    \/ RetriesExhausted
    \/ KeepFetched
    \/ CheckFetched
    \/ BuildDataframe
    \/ MergeTsvMetadata
    \/ AddIndicators
    \/ AddEarningsFlags
    \/ ReorderColumns
    \/ ExportToCsv

Spec == Init /\ [][Next]_vars

----------------------------------------------------------------------------
(* One call fetch_with_retry(ticker, max_retries) on its own *)

RetryTickers == {"1301", "TEST.T"}

InitRetry ==
    /\ pc = "fetch_with_retry"
    /\ max_retries \in 0..MaxRetriesArg
    /\ \E t \in RetryTickers : fetched = <<t>> /\ tickers = <<t>>
    /\ tsv = Missing
    /\ limit = None
    /\ include_etf = FALSE
    /\ idx = 0
    /\ ticker_data_list = <<>>
    /\ attempt = 0
    /\ history = <<>>
    /\ slept = <<>>
    /\ result = Pending
    /\ returned = <<>>
    /\ df = EmptyTable
    /\ output = NoOutput
    /\ csvFiles = <<>>
    /\ exitStatus = "running"

RetryFetchAttempt == FetchAttemptOn(InfoOutcomes)

NextRetry ==
    \/ RetryFetchAttempt
    \/ RetriesExhausted

SpecRetry == InitRetry /\ [][NextRetry]_vars

\* the call as one thread of control that goes on while it has a step to take
SpecRetryLive == SpecRetry /\ WF_vars(NextRetry)

----------------------------------------------------------------------------
(* Properties of fetch_with_retry, checked under SpecRetry *)

Failed(call) == ~Truthy(call.data)

\* C1: fetch_with_retry stops at the first success.  Whenever a call of
\* fetch_ticker_data has returned a non-empty payload, that call is the last
\* one made (after k empty results the call count is k + 1, never more), the
\* function has returned, and what it returned is exactly that payload.
C1_StopsAtFirstSuccess ==
    \A j \in DOMAIN history :
        ~Failed(history[j]) =>
            /\ j = Len(history)
            /\ \A h \in 1..(j - 1) : Failed(history[h])
            /\ j <= max_retries
            /\ pc = "fetch_returned"
            /\ result = history[j].data
            /\ returned = <<[ticker |-> fetched[1], data |-> history[j].data]>>

\* two empty results, then a payload on the third call of three
C1_Witness ==
    /\ pc = "fetch_returned"
    /\ max_retries = 3
    /\ Len(history) = 3
    /\ Failed(history[1]) /\ Failed(history[2])
    /\ result = history[3].data
    /\ Truthy(result)

\* C2: when every attempt fails, fetch_with_retry(ticker, max_retries) has
\* called fetch_ticker_data exactly max_retries times (3 for max_retries = 3)
\* when it returns, it returns None, and it never makes more calls than that.
C2_AllFailReturnsNone ==
    /\ Len(history) <= max_retries
    /\ (pc = "fetch_returned" /\ \A j \in DOMAIN history : Failed(history[j])) =>
           /\ Len(history) = max_retries
           /\ result = None

\* three failures of three, None returned
C2_Witness ==
    /\ pc = "fetch_returned"
    /\ max_retries = 3
    /\ Len(history) = 3
    /\ \A j \in DOMAIN history : Failed(history[j])
    /\ result = None

\* C3: retries are separated by exponential backoff.  Every attempt after the
\* first was preceded by a sleep of 2^attempt seconds following the failed
\* attempt before it (1 s after attempt 0, 2 s after attempt 1, ...).
C3_BackoffBeforeEveryRetry ==
    \A j \in DOMAIN history :
        j > 1 => <<j - 2, BACKOFF_BASE^(j - 2)>> \in Range(slept)

----------------------------------------------------------------------------
(* Properties of a run of export_data, checked under Spec *)

\* the for-loop over the tickers has ended
LoopOver ==
    \/ pc \in {"build", "merge", "indicators", "flags", "reorder", "export", "done"}
    \/ pc = "exit" /\ tickers # <<>>

\* the table stages have begun on a built table
TableBuilt == pc \in {"merge", "indicators", "flags", "reorder", "export", "done"}

GotData(r) == r.data # None

\* the tickers whose fetch_with_retry returned data, in call order
SuccessTickers ==
    LET ok == SelectSeq(returned, GotData)
    IN  [i \in 1..Len(ok) |-> ok[i].ticker]

TickerColumn(t) == [i \in 1..Len(t.rows) |-> t.rows[i].ticker.s]

\* C4, the part about the run: a ticker whose fetch failed does not end the
\* run.  Every ticker of the list is handed to fetch_with_retry, in list
\* order, whatever the earlier ones returned; ticker_data_list holds one
\* dict per successful fetch, in call order; and the table build_dataframe
\* makes of it has exactly those rows.
C4_FailedTickerOnlyDropped ==
    /\ Len(fetched) <= Len(tickers)
    /\ \A i \in DOMAIN fetched : fetched[i] = tickers[i]
    /\ LoopOver => fetched = tickers
    /\ (pc \in {"loop", "build"} \/ TableBuilt) =>
           [i \in 1..Len(ticker_data_list) |-> ticker_data_list[i].ticker.s]
               = SuccessTickers
    /\ pc = "merge" => TickerColumn(df) = SuccessTickers

\* C4: the exported table has exactly one row for each ticker whose
\* fetch_with_retry returned data, in ticker-list order, and no row for a
\* failed ticker.
C4_OneRowPerFetchedTicker ==
    pc = "done" => TickerColumn(csvFiles[1]) = SuccessTickers

InputInvalid ==
    \/ ~path_exists(tsv)
    \/ ~path_is_file(tsv)
    \/ limit # None /\ limit.n <= 0

\* C5: export_data ends with exit status 1, and does nothing more, when the
\* input path is missing or not a file, when limit is given and <= 0, when
\* the ticker list read from the input is empty, and when the loop is over
\* with no ticker fetched.
C5_FailureExits ==
    /\ (pc # "validate" /\ InputInvalid) => (pc = "exit" /\ exitStatus = "1")
    /\ (pc \notin {"validate", "read"} /\ tickers = <<>>) =>
           (pc = "exit" /\ exitStatus = "1")
    /\ (LoopOver /\ SuccessTickers = <<>>) => (pc = "exit" /\ exitStatus = "1")
    /\ pc = "exit" => ~ENABLED Next

\* the run left because every ticker of a non-empty list failed
C5_Witness ==
    /\ pc = "exit"
    /\ exitStatus = "1"
    /\ ~InputInvalid
    /\ Len(tickers) = 2
    /\ Len(returned) = 2
    /\ SuccessTickers = <<>>

\* C6: a failed run leaves no partial output.  With exit status 1,
\* export_to_csv has not run: no CSV file is written and the output directory
\* is not made; and when the input or the limit is invalid no fetch was
\* attempted.
C6_NoPartialOutput ==
    /\ exitStatus = "1" => (csvFiles = <<>> /\ ~output.made)
    /\ (exitStatus = "1" /\ InputInvalid) => (fetched = <<>> /\ returned = <<>>)

\* a failure exit after fetches were attempted
C6_Witness ==
    /\ exitStatus = "1"
    /\ fetched # <<>>
    /\ csvFiles = <<>>

IsEtfEtn(row) == row.market = Str(ETF_ETN)

\* the input of the scenario: 1301 (Prime) and 1320 (ETF/ETN)
ScenarioTsv ==
    [kind |-> "file", ncols |-> 8,
     rows |-> <<[code |-> Str("1301"), market |-> Str(PRIME)],
                [code |-> Str("1320"), market |-> Str(ETF_ETN)]>>]

\* C7: with include_etf = False every ticker handed to a fetch is the code of
\* a TSV row whose market category is not "ETF/ETN", so a ticker listed as
\* ETF/ETN is never fetched; for the input 1301 (Prime), 1320 (ETF/ETN) the
\* run fetches only 1301, and both with include_etf = True.
C7_EtfNeverFetched ==
    /\ ~include_etf =>
           \A i \in DOMAIN fetched :
               \E r \in DOMAIN tsv.rows :
                   /\ tsv.rows[r].code = Str(fetched[i])
                   /\ ~IsEtfEtn(tsv.rows[r])
    /\ (tsv = ScenarioTsv /\ limit = None /\ LoopOver) =>
           fetched = IF include_etf THEN <<"1301", "1320">> ELSE <<"1301">>

\* the scenario run, ETF/ETN excluded, after its loop
C7_Witness ==
    /\ tsv = ScenarioTsv
    /\ limit = None
    /\ ~include_etf
    /\ LoopOver
    /\ fetched = <<"1301">>

\* the ticker codes of the file in file order: the non-null cells of column 1
\* of the rows read_tickers_from_tsv looks at
CodesOfFile ==
    IF read_csv_raises(tsv) \/ ~(tsv.ncols > TICKER_COLUMN) THEN <<>>
    ELSE LET Listed(row) ==
                 /\ ~IsNull(row.code)
                 /\ (~include_etf /\ tsv.ncols > MARKET_COLUMN) =>
                        (~IsNull(row.market) /\ ~IsEtfEtn(row))
             kept == SelectSeq(tsv.rows, Listed)
         IN  [i \in 1..Len(kept) |-> kept[i].code.s]

\* C8: read_tickers_from_tsv respects the limit.  With limit = n > 0 it
\* returns exactly the first min(n, N) of the N ticker codes of the file, in
\* file order; with limit = None it returns all N.
C8_LimitRespected ==
    pc \notin {"validate", "read"} /\ ~InputInvalid =>
        IF limit = None THEN tickers = CodesOfFile
        ELSE /\ Len(tickers) = Min(limit.n, Len(CodesOfFile))
             /\ \A i \in DOMAIN tickers : tickers[i] = CodesOfFile[i]

\* a limit below the number of codes cuts the list, a limit above it does not
C8_Witness ==
    /\ pc = "loop"
    /\ limit = Num(1)
    /\ Len(CodesOfFile) = 2
    /\ tickers = <<CodesOfFile[1]>>

----------------------------------------------------------------------------
(* The table stages on their own.  A table starts from rows of base values  *)
(* with two cells overridden, so that every single field and every pair of *)
(* fields gets to be null, zero, negative or equal to another field.       *)

TableTickers == <<"1301", "1320", "7203", "9984">>

BaseEarnings == [earnings_y0 |-> Num(3), earnings_y1 |-> Num(2), earnings_y2 |-> Num(1)]

\* the dict export_data appends for the ticker of row i
BaseDict(i) == dict_update([ticker |-> Str(TableTickers[i])], dict_update(BaseInfo, BaseEarnings))

EngineFields ==
    <<"market_cap", "total_cash", "total_debt", "total_assets", "book_value",
      "operating_cash_flow", "capex", "ebit", "gross_profit", "nopat",
      "invested_capital", "dividends", "share_buyback_net", "debt_reduction">>

BaseEngineRow ==
    [market_cap |-> Num(10), total_cash |-> Num(5), total_debt |-> Num(3),
     total_assets |-> Num(20), book_value |-> Num(4),
     operating_cash_flow |-> Num(6), capex |-> Num(2), ebit |-> Num(2),
     gross_profit |-> Num(8), nopat |-> Num(3), invested_capital |-> Num(15),
     dividends |-> Num(1), share_buyback_net |-> Num(2), debt_reduction |-> Num(-3)]

OverrideValues == {Null, Num(0), Num(2)}

\* rows 1..n of base, the cells c1 and c2 (row, field) set to v1 and v2
Overridden(n, base, c1, v1, c2, v2) ==
    [i \in 1..n |->
        [f \in DOMAIN base[i] |->
            IF <<i, f>> = c2 THEN v2
            ELSE IF <<i, f>> = c1 THEN v1
            ELSE base[i][f]]]

\* rows is some 1..MaxTableRows rows of base with two cells overridden
RowsFrom(rows, base, fields) ==
    \E n \in 1..MaxTableRows :
        \E c1 \in (1..n) \X Range(fields), c2 \in (1..n) \X Range(fields) :
            \E v1 \in OverrideValues, v2 \in OverrideValues :
                rows = Overridden(n, base, c1, v1, c2, v2)

\* the dicts export_data appends, one for each row
BaseDicts == [i \in 1..MaxTableRows |-> BaseDict(i)]

EngineRows == [i \in 1..MaxTableRows |-> BaseEngineRow]

\* the table t with an enterprise_value column it already carries, of a
\* value no row computes
StaleEv == Num(99)
WithStaleEv(t) ==
    [columns |-> t.columns \o <<"enterprise_value">>,
     rows |-> [i \in 1..Len(t.rows) |->
                  [c \in Range(t.columns) \cup {"enterprise_value"} |->
                      IF c = "enterprise_value" THEN StaleEv ELSE t.rows[i][c]]]]

InitTable ==
    /\ \/ /\ pc = "build"
          /\ RowsFrom(ticker_data_list, BaseDicts, InfoFields \o EarningsFields)
          /\ df = EmptyTable
       \/ /\ pc = "indicators"
          /\ ticker_data_list = <<>>
          /\ \E n \in 1..MaxTableRows :
                \E c1 \in (1..n) \X Range(InfoFields) :
                    \E v1 \in OverrideValues :
                        df = WithStaleEv(build_dataframe(
                                 Overridden(n, BaseDicts, c1, v1, c1, v1)))
       \/ /\ pc = "engine"
          /\ ticker_data_list = <<>>
          /\ \E n \in 1..MaxTableRows :
                \E c1 \in (1..n) \X Range(EngineFields),
                   c2 \in (1..n) \X Range(EngineFields) :
                    \E v1 \in OverrideValues, v2 \in OverrideValues :
                        df = [columns |-> EngineFields,
                              rows |-> Overridden(n, EngineRows, c1, v1, c2, v2)]
       \/ /\ pc = "engine"
          /\ ticker_data_list = <<>>
          /\ \E n \in 1..MaxTableRows :
                \E c1 \in (1..n) \X Range(EngineFields) :
                    \E v1 \in OverrideValues :
                        df = WithStaleEv(
                                 [columns |-> EngineFields,
                                  rows |-> Overridden(n, EngineRows, c1, v1, c1, v1)])
    /\ tsv = ScenarioTsv
    /\ limit = None
    /\ include_etf = TRUE
    /\ tickers = <<>>
    /\ idx = 0
    /\ fetched = <<>>
    /\ max_retries = 0
    /\ attempt = 0
    /\ history = <<>>
    /\ slept = <<>>
    /\ result = Pending
    /\ returned = <<>>
    /\ output = NoOutput
    /\ csvFiles = <<>>
    /\ exitStatus = "running"

\* indicators.add_fundamental_indicators(df)
AddFundamentalIndicators ==
    Stage("engine", add_fundamental_indicators(df), "engine_yield")

\* indicators.calculate_shareholder_yield on the columns of the table
ShareholderYield ==
    Stage("engine_yield",
          with_columns(df, <<"shareholder_yield">>,
                 [i \in 1..Len(df.rows) |->
                     [c \in Range(<<"shareholder_yield">>) |-> ShareholderYieldCell(df.rows[i], c)]]),
          "engine_done")

NextTable ==
    \/ BuildDataframe
    \/ MergeTsvMetadata
    \/ AddIndicators
    \/ AddEarningsFlags
    \/ ReorderColumns
    \/ ExportToCsv
    \/ AddFundamentalIndicators
    \/ ShareholderYield

SpecTable == InitTable /\ [][NextTable]_vars

----------------------------------------------------------------------------
(* Properties of the table stages and of the ratio functions, checked      *)
(* under SpecTable                                                         *)

HasColumn(name) == name \in Range(df.columns)

\* a > b for two numbers
Greater(a, b) == a.n * b.d > b.n * a.d

\* C9: the consecutive_earnings_growth flag of a row is true exactly when
\* earnings_y0, earnings_y1 and earnings_y2 are all non-null and
\* earnings_y0 > earnings_y1 > earnings_y2; otherwise it is false, and it is
\* never null.
C9_EarningsFlag ==
    HasColumn("consecutive_earnings_growth") =>
        \A i \in DOMAIN df.rows :
            LET row == df.rows[i]
                growth ==
                    /\ ~IsNull(row.earnings_y0)
                    /\ ~IsNull(row.earnings_y1)
                    /\ ~IsNull(row.earnings_y2)
                    /\ Greater(row.earnings_y0, row.earnings_y1)
                    /\ Greater(row.earnings_y1, row.earnings_y2)
            IN  /\ row.consecutive_earnings_growth.k = "bool"
                /\ row.consecutive_earnings_growth.n = 1 <=> growth

\* a table with a row of three growing years flagged true and a row with a
\* missing year flagged false
C9_Witness ==
    /\ HasColumn("consecutive_earnings_growth")
    /\ \E i \in DOMAIN df.rows :
           /\ df.rows[i].consecutive_earnings_growth = Bool(TRUE)
           /\ ~IsNull(df.rows[i].earnings_y2)
    /\ \E i \in DOMAIN df.rows :
           /\ df.rows[i].consecutive_earnings_growth = Bool(FALSE)
           /\ IsNull(df.rows[i].earnings_y1)
           /\ ~IsNull(df.rows[i].earnings_y0)

RatioColumns ==
    {"net_cash_ratio", "roic", "croic", "gross_profitability", "ev_ebit",
     "fcf_yield", "pbr", "ev_fcf", "shareholder_yield", "psr", "peg_ratio"}

\* the denominator of each ratio, from the inputs of the row
Denominator(row, name) ==
    CASE name \in {"net_cash_ratio", "fcf_yield", "shareholder_yield"} -> row.market_cap
      [] name \in {"roic", "croic"} -> row.invested_capital
      [] name = "gross_profitability" -> row.total_assets
      [] name = "ev_ebit" -> row.ebit
      [] name = "pbr" -> row.book_value
      [] name = "ev_fcf" -> pl_sub(row.operating_cash_flow, row.capex)
      [] name = "psr" -> row.total_revenue
      [] name = "peg_ratio" -> pl_mul(row.earnings_growth, Num(PERCENT))

IsZero(v) == IsNum(v) /\ v.n = 0

\* C10: division by zero yields null.  In every ratio column a table has, a
\* cell whose denominator is zero is null (never infinity, never NaN).
C10_DivisionByZeroIsNull ==
    \A name \in RatioColumns :
        HasColumn(name) =>
            \A i \in DOMAIN df.rows :
                IsZero(Denominator(df.rows[i], name)) => IsNull(df.rows[i][name])

\* the input columns each ratio is computed from
Operands(name) ==
    CASE name = "net_cash_ratio" -> {"total_cash", "total_debt", "market_cap"}
      [] name = "roic" -> {"nopat", "invested_capital"}
      [] name = "croic" -> {"operating_cash_flow", "capex", "invested_capital"}
      [] name = "gross_profitability" -> {"gross_profit", "total_assets"}
      [] name = "ev_ebit" -> {"market_cap", "total_debt", "total_cash", "ebit"}
      [] name = "fcf_yield" -> {"operating_cash_flow", "capex", "market_cap"}
      [] name = "pbr" -> {"market_cap", "book_value"}
      [] name = "ev_fcf" ->
             {"market_cap", "total_debt", "total_cash", "operating_cash_flow", "capex"}
      [] name = "shareholder_yield" ->
             {"dividends", "share_buyback_net", "debt_reduction", "market_cap"}
      [] name = "psr" -> {"market_cap", "total_revenue"}
      [] name = "peg_ratio" -> {"trailing_pe", "earnings_growth"}

\* the ratio columns a stage that has run without raising has added
RatiosDue ==
    IF pc \in {"flags", "reorder", "export", "done"}
    THEN Range(IndicatorColumns1 \o IndicatorColumns2 \o IndicatorColumns3)
             \ {"enterprise_value"}
    ELSE IF pc = "engine_yield" THEN Range(EngineColumns)
    ELSE IF pc = "engine_done" THEN Range(EngineColumns) \cup {"shareholder_yield"}
    ELSE {}

\* C11: null in, null out.  In every ratio column a table has, the cell of a
\* row is null when one of the inputs the ratio reads is null in that row, and
\* it is not null when all of them are present, whatever the other rows hold;
\* and each stage that computes ratios has added its columns, so no
\* computation raised.
C11_NullInNullOut ==
    /\ \A name \in RatioColumns :
          HasColumn(name) =>
              \A i \in DOMAIN df.rows :
                  IsNull(df.rows[i][name]) <=>
                      \E o \in Operands(name) : IsNull(df.rows[i][o])
    /\ \A name \in RatiosDue : HasColumn(name)

\* a table of two rows, the first with a null input and a null ratio next to
\* ratios that are computed, the second with every ratio computed
C11_Witness ==
    /\ pc = "flags"
    /\ Len(df.rows) = 2
    /\ IsNull(df.rows[1].total_cash)
    /\ IsNull(df.rows[1].net_cash_ratio)
    /\ ~IsNull(df.rows[1].psr)
    /\ \A name \in RatiosDue : ~IsNull(df.rows[2][name])

\* a stage has computed the enterprise_value column of the table
EvComputed == HasColumn("enterprise_value") /\ pc \notin {"engine", "indicators"}

Present3(row) ==
    IsNum(row.market_cap) /\ IsNum(row.total_debt) /\ IsNum(row.total_cash)

\* C12: in every row whose market_cap, total_debt and total_cash are present,
\* the computed enterprise_value is the number market_cap + total_debt -
\* total_cash.
C12_EnterpriseValueExact ==
    EvComputed =>
        \A i \in DOMAIN df.rows :
            Present3(df.rows[i]) =>
                df.rows[i].enterprise_value =
                    Num(df.rows[i].market_cap.n + df.rows[i].total_debt.n
                            - df.rows[i].total_cash.n)

\* the engine has computed an enterprise value from a non-zero cash and a
\* non-zero debt
C12_Witness ==
    /\ pc = "engine_yield"
    /\ EvComputed
    /\ \E i \in DOMAIN df.rows :
          /\ Present3(df.rows[i])
          /\ df.rows[i].total_cash.n > 0
          /\ df.rows[i].total_debt.n > 0
          /\ IsNum(df.rows[i].enterprise_value)

\* C13: in every row whose total_cash, total_debt and market_cap are present
\* with market_cap non-zero, net_cash_ratio is the number (total_cash -
\* total_debt) / market_cap, and with a positive market_cap it is negative
\* exactly when the debt exceeds the cash; market_cap = 1000000, total_cash =
\* 500000, total_debt = 300000 give 0.2, that is 1/5.
C13_NetCashRatio ==
    /\ calculate_net_cash_ratio(Num(500000), Num(300000), Num(1000000))
           = [k |-> "num", n |-> 1, d |-> 5]
    /\ HasColumn("net_cash_ratio") =>
          \A i \in DOMAIN df.rows :
              LET row == df.rows[i]
                  r == row.net_cash_ratio
              IN  (Present3(row) /\ row.market_cap.n # 0) =>
                      /\ r.k = "num"
                      /\ r.n * row.market_cap.n = (row.total_cash.n - row.total_debt.n) * r.d
                      /\ row.market_cap.n > 0 =>
                             (r.n < 0 <=> row.total_debt.n > row.total_cash.n)

\* a row whose debt exceeds its cash has got a negative net_cash_ratio
C13_Witness ==
    /\ HasColumn("net_cash_ratio")
    /\ \E i \in DOMAIN df.rows :
          /\ Present3(df.rows[i])
          /\ df.rows[i].market_cap.n > 0
          /\ df.rows[i].total_debt.n > df.rows[i].total_cash.n
          /\ df.rows[i].net_cash_ratio.k = "num"
          /\ df.rows[i].net_cash_ratio.n < 0

----------------------------------------------------------------------------
(* calculate_piotroski_f_score on its own, on a table of one row.  Each of  *)
(* the nine criteria is met, missed or tied, and at most one of the        *)
(* fifteen inputs is null.                                                 *)

FScoreFields ==
    <<"net_income", "operating_cash_flow", "roa", "roa_prev", "ocf_greater_ni",
      "long_term_debt", "long_term_debt_prev", "current_ratio", "current_ratio_prev",
      "shares_outstanding", "shares_outstanding_prev", "gross_margin",
      "gross_margin_prev", "asset_turnover", "asset_turnover_prev">>

\* the criteria, by the column that carries this year's figure
Criteria ==
    {"net_income", "operating_cash_flow", "roa", "ocf_greater_ni", "long_term_debt",
     "current_ratio", "shares_outstanding", "gross_margin", "asset_turnover"}

\* a row in which exactly the criteria of met hold; the criterion tie, if it
\* is one, has its two sides equal (a figure compared with 0 is 0)
FScoreRow(met, tie) ==
    LET Up(c) == IF c = tie THEN Num(2) ELSE IF c \in met THEN Num(3) ELSE Num(1)
        UpPrev(c) == IF c = tie THEN Num(2) ELSE IF c \in met THEN Num(1) ELSE Num(3)
        Sign(c) == IF c = tie THEN Num(0) ELSE IF c \in met THEN Num(3) ELSE Num(-1)
    IN  [net_income |-> Sign("net_income"),
         operating_cash_flow |-> Sign("operating_cash_flow"),
         roa |-> Up("roa"), roa_prev |-> UpPrev("roa"),
         ocf_greater_ni |-> Bool("ocf_greater_ni" \in met),
         long_term_debt |-> UpPrev("long_term_debt"),
         long_term_debt_prev |-> Up("long_term_debt"),
         current_ratio |-> Up("current_ratio"),
         current_ratio_prev |-> UpPrev("current_ratio"),
         shares_outstanding |-> UpPrev("shares_outstanding"),
         shares_outstanding_prev |-> Up("shares_outstanding"),
         gross_margin |-> Up("gross_margin"),
         gross_margin_prev |-> UpPrev("gross_margin"),
         asset_turnover |-> Up("asset_turnover"),
         asset_turnover_prev |-> UpPrev("asset_turnover")]

NoField == "-"

InitFScore ==
    /\ pc = "fscore"
    /\ \E met \in SUBSET Criteria :
          \E tie \in (Criteria \ {"ocf_greater_ni"}) \cup {NoField} :
              \E null \in Range(FScoreFields) \cup {NoField} :
                  /\ tie = NoField \/ null = NoField
                  /\ df = [columns |-> FScoreFields,
                           rows |-> <<[f \in Range(FScoreFields) |->
                                          IF f = null THEN Null
                                          ELSE FScoreRow(met, tie)[f]]>>]
    /\ tsv = Missing
    /\ limit = None
    /\ include_etf = FALSE
    /\ tickers = <<>>
    /\ idx = 0
    /\ ticker_data_list = <<>>
    /\ fetched = <<>>
    /\ max_retries = 0
    /\ attempt = 0
    /\ history = <<>>
    /\ slept = <<>>
    /\ result = Pending
    /\ returned = <<>>
    /\ output = NoOutput
    /\ csvFiles = <<>>
    /\ exitStatus = "running"

FScoreColumn == <<"f_score">>

\* the expression calculate_piotroski_f_score returns for the columns of the
\* table, evaluated under the name f_score
PiotroskiFScore ==
    Stage("fscore",
          with_columns(df, FScoreColumn,
              [i \in 1..Len(df.rows) |->
                  [c \in Range(FScoreColumn) |->
                      LET row == df.rows[i]
                      IN  calculate_piotroski_f_score(
                              row.net_income, row.operating_cash_flow, row.roa,
                              row.roa_prev, row.ocf_greater_ni, row.long_term_debt,
                              row.long_term_debt_prev, row.current_ratio,
                              row.current_ratio_prev, row.shares_outstanding,
                              row.shares_outstanding_prev, row.gross_margin,
                              row.gross_margin_prev, row.asset_turnover,
                              row.asset_turnover_prev)]]),
          "fscore_done")

NextFScore ==
    \/ PiotroskiFScore

SpecFScore == InitFScore /\ [][NextFScore]_vars

----------------------------------------------------------------------------
(* Properties of calculate_piotroski_f_score, checked under SpecFScore *)

\* the criterion c holds in the row, by the figures of the row
Satisfied(row, c) ==
    CASE c = "net_income" -> row.net_income.n > 0
      [] c = "operating_cash_flow" -> row.operating_cash_flow.n > 0
      [] c = "roa" -> Greater(row.roa, row.roa_prev)
      [] c = "ocf_greater_ni" -> row.ocf_greater_ni.n = 1
      [] c = "long_term_debt" -> Greater(row.long_term_debt_prev, row.long_term_debt)
      [] c = "current_ratio" -> Greater(row.current_ratio, row.current_ratio_prev)
      [] c = "shares_outstanding" ->
             ~Greater(row.shares_outstanding, row.shares_outstanding_prev)
      [] c = "gross_margin" -> Greater(row.gross_margin, row.gross_margin_prev)
      [] c = "asset_turnover" -> Greater(row.asset_turnover, row.asset_turnover_prev)

AllPresent(row) == \A f \in Range(FScoreFields) : ~IsNull(row[f])

\* C14: with all 15 inputs present the F-score of a row is an integer from 0
\* to 9, the number of the nine criteria the row satisfies.
C14_FScoreCountsCriteria ==
    pc = "fscore_done" =>
        \A i \in DOMAIN df.rows :
            LET row == df.rows[i]
            IN  AllPresent(row) =>
                    /\ row.f_score.k = "num"
                    /\ row.f_score.d = 1
                    /\ row.f_score.n \in 0..9
                    /\ row.f_score.n = Cardinality({c \in Criteria : Satisfied(row, c)})

\* a row with all inputs present, its share count unchanged from last year
\* and its ROA unimproved, has been scored
C14_Witness ==
    /\ pc = "fscore_done"
    /\ AllPresent(df.rows[1])
    /\ df.rows[1].shares_outstanding = df.rows[1].shares_outstanding_prev
    /\ ~Satisfied(df.rows[1], "roa")
    /\ df.rows[1].f_score.n \in 1..8

----------------------------------------------------------------------------
(* Properties of the column order and of the written file, checked under   *)
(* Spec                                                                    *)

\* the columns reorder_columns places, in the order it places them
PlacedColumns ==
    <<"ticker", "stock_name", "market_category", "sector_33", "sector_17",
      "dividend_yield", "payout_ratio", "earnings_y0", "earnings_y1", "earnings_y2",
      "consecutive_earnings_growth", "trailing_pe", "psr", "peg_ratio">>

\* the position of x in the sequence s that holds it
IndexOf(s, x) == CHOOSE i \in DOMAIN s : s[i] = x

\* the place of column c: its position among the placed columns, or behind
\* all of them
Place(c) ==
    IF c \in Range(PlacedColumns) THEN IndexOf(PlacedColumns, c)
    ELSE Len(PlacedColumns) + 1

\* after holds the columns of before, each once, the placed columns first in
\* their fixed order and the others behind them in the order before has them
Reordered(before, after) ==
    /\ Range(after) = Range(before)
    /\ Len(after) = Len(before)
    /\ \A i, j \in DOMAIN after :
          i < j =>
              /\ Place(after[i]) <= Place(after[j])
              /\ Place(after[i]) = Place(after[j]) =>
                     /\ after[i] \notin Range(PlacedColumns)
                     /\ IndexOf(before, after[i]) < IndexOf(before, after[j])

\* C15: reorder_columns puts ticker first, then the metadata columns that
\* are present, the dividend columns, the earnings columns and the valuation
\* columns, each group in its listed order, then every remaining column in
\* its original relative order.
C15_ColumnOrder ==
    [][pc = "reorder" => Reordered(df.columns, df'.columns)]_vars

\* a table with metadata has been reordered: ticker and stock_name lead and
\* market_cap, the first fetched field, stands right behind peg_ratio
C15_Witness ==
    /\ pc = "export"
    /\ df.columns[1] = "ticker"
    /\ df.columns[2] = "stock_name"
    /\ df.columns[Len(PlacedColumns)] = "peg_ratio"
    /\ df.columns[Len(PlacedColumns) + 1] = "market_cap"
    /\ df.columns[Len(df.columns)] = "ev_fcf"

----------------------------------------------------------------------------
(* export_to_csv and the reading back of the file it wrote.  A field of    *)
(* the file is text: a string of digits and the integer of the same digits *)
(* are the same field.                                                     *)

\* df.write_csv: the field a cell is written as
write_csv_field(cell) ==
    CASE IsNull(cell) -> [k |-> "empty"]
      [] cell.k = "str" /\ isdigit(cell.s) ->
             [k |-> "numeral", v |-> Num(DecimalValue[cell.s])]
      [] cell.k = "str" /\ ~isdigit(cell.s) -> [k |-> "text", s |-> cell.s]
      [] OTHER -> [k |-> "numeral", v |-> cell]

write_csv(t) ==
    [columns |-> t.columns,
     rows |-> [i \in 1..Len(t.rows) |->
                  [c \in Range(t.columns) |-> write_csv_field(t.rows[i][c])]]]

\* the digits of a numeral, as a string
DecimalText(v) == CHOOSE s \in DOMAIN DecimalValue : DecimalValue[s] = v.n

\* pl.read_csv infers the type of a column from its fields: a column whose
\* fields are all numerals or empty is numeric, any other is a string column;
\* an empty field is null
read_csv(file) ==
    LET Numeric(c) == \A i \in DOMAIN file.rows : file.rows[i][c].k # "text"
        Parse(f, c) ==
            CASE f.k = "empty" -> Null
              [] f.k = "text" -> Str(f.s)
              [] f.k = "numeral" -> IF Numeric(c) THEN f.v ELSE Str(DecimalText(f.v))
    IN  [columns |-> file.columns,
         rows |-> [i \in 1..Len(file.rows) |->
                      [c \in Range(file.columns) |-> Parse(file.rows[i][c], c)]]]

CsvTickers == {"7203", "9984", "TEST.T"}
CsvColumns == <<"ticker", "market_cap">>

InitRoundTrip ==
    /\ pc = "export"
    /\ \E n \in 1..MaxTableRows :
          \E ts \in [1..n -> CsvTickers], caps \in [1..n -> {Null, Num(10)}] :
              df = [columns |-> CsvColumns,
                    rows |-> [i \in 1..n |->
                                 [ticker |-> Str(ts[i]), market_cap |-> caps[i]]]]
    /\ tsv = Missing
    /\ limit = None
    /\ include_etf = FALSE
    /\ tickers = <<>>
    /\ idx = 0
    /\ ticker_data_list = <<>>
    /\ fetched = <<>>
    /\ max_retries = 0
    /\ attempt = 0
    /\ history = <<>>
    /\ slept = <<>>
    /\ result = Pending
    /\ returned = <<>>
    /\ output = NoOutput
    /\ csvFiles = <<>>
    /\ exitStatus = "running"

\* df_read = pl.read_csv(output_file), on the file export_to_csv wrote last
ReadCsvBack ==
    Stage("done", read_csv(write_csv(csvFiles[Len(csvFiles)])), "read_back")

NextRoundTrip ==
    \/ ExportToCsv
    \/ ReadCsvBack

SpecRoundTrip == InitRoundTrip /\ [][NextRoundTrip]_vars

\* C16: the table read back from the written file has as many rows as the
\* table written, and the same ticker values in the same order.
C16_RoundTripKeepsTickers ==
    pc = "read_back" =>
        /\ Len(df.rows) = Len(csvFiles[1].rows)
        /\ \A i \in DOMAIN df.rows : df.rows[i].ticker = csvFiles[1].rows[i].ticker

\* C16, the part that holds: the row count is kept, and so is every ticker
\* of a column in which some ticker is not a string of digits
C16_RowCountKept ==
    pc = "read_back" =>
        /\ Len(df.rows) = Len(csvFiles[1].rows)
        /\ (\E i \in DOMAIN df.rows : ~isdigit(csvFiles[1].rows[i].ticker.s)) =>
               \A i \in DOMAIN df.rows : df.rows[i].ticker = csvFiles[1].rows[i].ticker

----------------------------------------------------------------------------
(* Properties of the output directory, checked under Spec *)

\* the run is over
RunEnded == pc \in {"done", "exit"}

\* the file names of the form stock_data_<second>.csv
StockDataNames == {FileName(strftime(now)) : now \in 0..MaxClock}

\* C17: a run that fetched at least one ticker ends with exactly one CSV
\* file in the output directory, named stock_data_<timestamp>.csv; the
\* directory exists then, whether or not it did before; the file has a ticker
\* column and at least one data row.  No run ever writes a second file.
C17_OneCsvFilePerRun ==
    /\ Cardinality(DOMAIN output.files) <= 1
    /\ Len(csvFiles) <= 1
    /\ (RunEnded /\ ticker_data_list # <<>>) =>
          /\ pc = "done"
          /\ output.exists
          /\ Len(csvFiles) = 1
          /\ \E name \in StockDataNames :
                /\ DOMAIN output.files = {name}
                /\ "ticker" \in Range(output.files[name].columns)
                /\ Len(output.files[name].rows) >= 1

\* a run has ended with its file in a directory it had to create
C17_Witness ==
    /\ pc = "done"
    /\ ticker_data_list # <<>>
    /\ output.made
    /\ Cardinality(DOMAIN output.files) = 1

----------------------------------------------------------------------------
(* Properties of the enterprise value, checked under SpecTable *)

\* the number market_cap + total_debt - total_cash of a row that has the three
EvOf(row) == row.market_cap.n + row.total_debt.n - row.total_cash.n

\* r is the quotient num / den
IsQuotient(r, num, den) == r.k = "num" /\ r.n * den = num * r.d

\* C18: ev_ebit and ev_fcf of a row come from the enterprise value of that
\* row's own market_cap, total_debt and total_cash: with the three present
\* and a non-zero denominator, ev_ebit is (market_cap + total_debt -
\* total_cash) / ebit and ev_fcf is the same over operating_cash_flow - capex,
\* also in a table that came in with an enterprise_value column; with one of
\* the three missing both are null.
C18_EvBeforeDependents ==
    (HasColumn("ev_ebit") /\ HasColumn("ev_fcf")) =>
        \A i \in DOMAIN df.rows :
            LET row == df.rows[i]
            IN  /\ ~Present3(row) => IsNull(row.ev_ebit) /\ IsNull(row.ev_fcf)
                /\ (Present3(row) /\ IsNum(row.ebit) /\ row.ebit.n # 0) =>
                       IsQuotient(row.ev_ebit, EvOf(row), row.ebit.n)
                /\ (Present3(row) /\ IsNum(row.operating_cash_flow) /\ IsNum(row.capex)
                        /\ row.operating_cash_flow.n # row.capex.n) =>
                       IsQuotient(row.ev_fcf, EvOf(row),
                                  row.operating_cash_flow.n - row.capex.n)

\* the engine has computed ev_ebit on a table that came in with an
\* enterprise_value column of another value
C18_Witness ==
    /\ pc = "engine_yield"
    /\ Len(df.columns) = Len(EngineFields) + 1 + Len(EngineColumns)
    /\ \E i \in DOMAIN df.rows :
          /\ Present3(df.rows[i])
          /\ df.rows[i].enterprise_value # StaleEv
          /\ IsNum(df.rows[i].ev_ebit)

----------------------------------------------------------------------------
(* Properties of fetch_ticker_data, checked under SpecRetry *)

AllFields == {"ticker"} \cup Range(InfoFields)

\* C19: a call of fetch_ticker_data never raises.  It returns {} when the
\* provider raises and when the provider's answer has no field that is not
\* null; otherwise it returns a dict of all 16 fields, each info field as the
\* provider gave it and ticker the code the call was given, without the .T
\* the provider was asked with.
C19_FetchTickerData ==
    \A j \in DOMAIN history :
        LET h == history[j]
            SomeField == h.provider = "answers"
                            /\ \E f \in Range(InfoFields) : ~IsNull(h.info[f])
        IN  /\ h.data # None
            /\ ~SomeField => h.data = EmptyDict
            /\ SomeField =>
                  /\ DOMAIN h.data = AllFields
                  /\ Cardinality(DOMAIN h.data) = 16
                  /\ h.data.ticker = Str(fetched[1])
                  /\ \A f \in Range(InfoFields) : h.data[f] = h.info[f]

\* the provider was asked for 1301.T and answered with a single field, and
\* the dict returned carries the ticker 1301
C19_Witness ==
    \E j \in DOMAIN history :
        /\ history[j].symbol = "1301.T"
        /\ history[j].provider = "answers"
        /\ history[j].info = SparseInfo
        /\ history[j].data # EmptyDict
        /\ history[j].data.ticker = Str("1301")

----------------------------------------------------------------------------
(* Properties of the order of the fetches, checked under Spec *)

\* how many of the first k returns of fetch_with_retry carried data
DataReturns(k) == Cardinality({i \in 1..k : GotData(returned[i])})

----------------------------------------------------------------------------
(* Properties of the columns along the pipeline, checked under Spec *)

NoDuplicate(s) == Cardinality(Range(s)) = Len(s)

AllIndicatorColumns == IndicatorColumns1 \o IndicatorColumns2 \o IndicatorColumns3

\* C21: columns are only added along the pipeline.  Each step of
\* merge_tsv_metadata, add_indicators_to_dataframe, add_earnings_flags and
\* reorder_columns leaves every column of the table before it in the table
\* after it, and the table after it names no column twice.
C21_ColumnsOnlyAdded ==
    [][(pc = "merge" \/ pc = "indicators" \/ pc = "flags" \/ pc = "reorder") =>
          (Range(df.columns) \subseteq Range(df'.columns) /\ NoDuplicate(df'.columns))]_vars

\* the four stages have run and each of the first three has added its columns
C21_Witness ==
    /\ pc = "export"
    /\ Range(KeyOrder) \subseteq Range(df.columns)
    /\ Range(MetadataColumns \o AllIndicatorColumns \o FlagColumn) \subseteq Range(df.columns)
    /\ Len(df.columns) = Len(KeyOrder \o MetadataColumns \o AllIndicatorColumns \o FlagColumn)
    /\ df.columns[2] = "stock_name"

----------------------------------------------------------------------------
(* export_data from the end of its loop on (lines 86-113), once the loop   *)
(* has kept the data of one ticker or more.  The kept records have fields  *)
(* null or zero; the input file has the eight columns the metadata merge   *)
(* reads, or three, and then the merge fails.  The run is one process that *)
(* goes on while it has a step to take.                                    *)

NarrowTsv ==
    [kind |-> "file", ncols |-> 3, rows |-> <<[code |-> Str("1301"), market |-> Null]>>]

InitTail ==
    /\ pc = "loop"
    /\ \E n \in 1..MaxTableRows :
          \E c1 \in (1..n) \X Range(InfoFields \o EarningsFields) :
              \E v1 \in OverrideValues :
                  ticker_data_list = Overridden(n, BaseDicts, c1, v1, c1, v1)
    /\ tsv \in {ScenarioTsv, NarrowTsv}
    /\ tickers = [i \in 1..Len(ticker_data_list) |-> TableTickers[i]]
    /\ idx = Len(tickers) + 1
    /\ fetched = tickers
    /\ returned = [i \in 1..Len(tickers) |->
                     [ticker |-> tickers[i], data |-> ticker_data_list[i]]]
    /\ limit = None
    /\ include_etf = TRUE
    /\ max_retries = EXPORT_MAX_RETRIES
    /\ attempt = 0
    /\ history = <<>>
    /\ slept = <<>>
    /\ result = Pending
    /\ df = EmptyTable
    /\ \E exists \in BOOLEAN : output = [NoOutput EXCEPT !.exists = exists]
    /\ csvFiles = <<>>
    /\ exitStatus = "running"

NextTail ==
    \/ CheckFetched
    \/ BuildDataframe
    \/ MergeTsvMetadata
    \/ AddIndicators
    \/ AddEarningsFlags
    \/ ReorderColumns
    \/ ExportToCsv

SpecTail == InitTail /\ [][NextTail]_vars /\ WF_vars(NextTail)

\* a cell of the records kept is null or zero
NullOrZeroKept ==
    \E i \in DOMAIN ticker_data_list :
        \E f \in Range(InfoFields \o EarningsFields) :
            ticker_data_list[i][f] \in {Null, Num(0)}

----------------------------------------------------------------------------
(* Termination of fetch_with_retry, checked under SpecRetryLive *)

\* C23: fetch_with_retry returns, for every max_retries >= 0 and every
\* pattern of failures; it has then called fetch_ticker_data at most
\* max_retries times; what it returns is None or a dict that is not empty;
\* with max_retries = 0 it returns None and has made no call.
C23_RetryTerminates ==
    /\ <>(pc = "fetch_returned")
    /\ [](Len(history) <= max_retries)
    /\ [](pc = "fetch_returned" =>
            /\ result = None \/ Truthy(result)
            /\ max_retries = 0 => (result = None /\ history = <<>>))

\* the call has returned None after max_retries calls, the largest number
\* tried, each of which failed
C23_Witness ==
    /\ pc = "fetch_returned"
    /\ max_retries = MaxRetriesArg
    /\ Len(history) = max_retries
    /\ result = None

----------------------------------------------------------------------------
(* Properties of the reading of the ticker list, checked under Spec *)

\* the rows whose market category is not "ETF/ETN"; a missing category is not
NonEtfRows(rows) ==
    LET Other(row) == ~IsEtfEtn(row)
    IN  SelectSeq(rows, Other)

\* the rows whose market category is there and is not "ETF/ETN"
KnownNonEtfRows(rows) ==
    LET Other(row) == ~IsNull(row.market) /\ ~IsEtfEtn(row)
    IN  SelectSeq(rows, Other)

\* read_tickers_from_tsv has run on a file with a ticker column, with
\* exclude_etf = True and a limit
LimitedRead ==
    /\ pc \notin {"validate", "read"}
    /\ ~InputInvalid
    /\ tsv.kind = "file"
    /\ tsv.ncols > TICKER_COLUMN
    /\ ~include_etf
    /\ limit # None

\* C24: the limit is applied after the ETF/ETN filter and after the null
\* ticker codes are dropped.  With exclude_etf = True and limit = n the list
\* read is the first n codes that are not null of the rows that are not
\* ETF/ETN, whatever row of the file they stand on.
C24_LimitAfterFilter ==
    LimitedRead =>
        tickers = Slice(TickerCodes(IF tsv.ncols > MARKET_COLUMN
                                    THEN NonEtfRows(tsv.rows)
                                    ELSE tsv.rows), limit.n)

\* what holds of the order of the steps: the list read is the first n codes
\* that are not null of the rows filter_individual_stocks lets through
C24_LimitAfterFilterOutput ==
    LimitedRead =>
        tickers = Slice(TickerCodes(filter_individual_stocks(tsv).rows), limit.n)

\* read_tickers_from_tsv has run on a file with exclude_etf = True, and so
\* has filter_individual_stocks on the table of the file
FilterRun ==
    /\ pc \notin {"validate", "read"}
    /\ ~InputInvalid
    /\ tsv.kind = "file"
    /\ ~include_etf

\* C25: filter_individual_stocks removes exactly the rows whose market
\* category is "ETF/ETN".  Every other row, a row of missing category too,
\* stays, in its place and as it was; a table of fewer than 4 columns comes
\* back as it was.
C25_FilterRemovesOnlyEtf ==
    FilterRun =>
        filter_individual_stocks(tsv) =
            IF tsv.ncols > MARKET_COLUMN
            THEN [tsv EXCEPT !.rows = NonEtfRows(tsv.rows)]
            ELSE tsv

\* what holds of the filter: it keeps, in their place and as they were, the
\* rows whose market category is there and is not "ETF/ETN"
C25_FilterKeepsKnownNonEtf ==
    FilterRun =>
        filter_individual_stocks(tsv) =
            IF tsv.ncols > MARKET_COLUMN
            THEN [tsv EXCEPT !.rows = KnownNonEtfRows(tsv.rows)]
            ELSE tsv

----------------------------------------------------------------------------
(* Properties of the earnings history in a run, checked under Spec *)

\* the earnings fields of the dict d are what one call of
\* fetch_earnings_history gives
OneEarningsFetch(d) ==
    \E outcome \in RunEarningsOutcomes :
        \A f \in Range(EarningsFields) :
            d[f] = fetch_earnings_history(d.ticker.s, outcome)[f]

\* fetch_with_retry has returned for the ticker at hand and the loop has
\* dealt with what it returned
ReturnsDealtWith == pc \in {"loop", "fetch_with_retry", "build", "merge"}

----------------------------------------------------------------------------
(* Properties of merge_tsv_metadata in a run, checked under Spec *)

\* the ticker cells of the dicts the table was built from, in order
BuiltTickers == [i \in 1..Len(ticker_data_list) |-> ticker_data_list[i].ticker.s]

\* s without the repetitions that follow an element at once
RECURSIVE Squeeze(_)
Squeeze(s) ==
    IF Len(s) < 2 THEN s
    ELSE IF s[1] = s[2] THEN Squeeze(Tail(s))
    ELSE <<s[1]>> \o Squeeze(Tail(s))

\* C27: merge_tsv_metadata keeps the rows of the table.  The table after it
\* has as many rows as the table before it, with the same ticker values in
\* the same order, whether the join is made or fails.
C27_MergeKeepsRows ==
    pc = "indicators" => TickerColumn(df) = BuiltTickers

\* what holds of the rows: none is lost and the order is kept; the tickers
\* after the merge are those before it, each one time or more
C27_MergeLosesNoRow ==
    pc = "indicators" => Squeeze(TickerColumn(df)) = Squeeze(BuiltTickers)

----------------------------------------------------------------------------
(* add_indicators_to_dataframe on its own, on a table that has every      *)
(* column the stage reads, or lacks one of them, or carries an             *)
(* enterprise_value column already.                                        *)

\* the table t without its column f
WithoutColumn(t, f) ==
    LET Other(c) == c # f
        cols == SelectSeq(t.columns, Other)
    IN  [columns |-> cols,
         rows |-> [i \in 1..Len(t.rows) |-> [c \in Range(cols) |-> t.rows[i][c]]]]

InitIndicators ==
    /\ pc = "indicators"
    /\ \E n \in 1..MaxTableRows :
          \E c1 \in (1..n) \X Range(InfoFields) :
              \E v1 \in OverrideValues :
                  LET table == build_dataframe(Overridden(n, BaseDicts, c1, v1, c1, v1))
                  IN  \/ df = table
                      \/ df = WithoutColumn(table, c1[2])
                      \/ df = WithStaleEv(table)
    /\ ticker_data_list = <<>>
    /\ tsv = ScenarioTsv
    /\ limit = None
    /\ include_etf = TRUE
    /\ tickers = <<>>
    /\ idx = 0
    /\ fetched = <<>>
    /\ max_retries = 0
    /\ attempt = 0
    /\ history = <<>>
    /\ slept = <<>>
    /\ result = Pending
    /\ returned = <<>>
    /\ output = NoOutput
    /\ csvFiles = <<>>
    /\ exitStatus = "running"

SpecIndicators == InitIndicators /\ [][AddIndicators]_vars


\* C28: add_indicators_to_dataframe is all-or-nothing.  The table after it
\* names all nine indicator columns, or it is the table before it, as it
\* was; a table with some of the indicators added is never returned.
C28_AllOrNothing ==
    [][pc = "indicators" =>
          (Range(AllIndicatorColumns) \subseteq Range(df'.columns) \/ df' = df)]_vars

\* the stage was given a table without ebit, which the second of its three
\* steps reads, and has returned it with no indicator added
C28_Witness ==
    /\ pc = "flags"
    /\ "ebit" \notin Range(df.columns)
    /\ IndicatorInputs1 \subseteq Range(df.columns)
    /\ Range(AllIndicatorColumns) \cap Range(df.columns) = {}

----------------------------------------------------------------------------
(* The F-score of a row with a missing input, checked under SpecFScore *)

\* C29: when an input of calculate_piotroski_f_score is null in a row, the
\* F-score of the row is null.  The criterion that reads the missing input
\* is not counted as 0 points, and the points of the other criteria are not
\* returned as a sum.
C29_NullInputNullScore ==
    pc = "fscore_done" =>
        \A i \in DOMAIN df.rows :
            ~AllPresent(df.rows[i]) => IsNull(df.rows[i].f_score)

\* a row has been scored that lacks last year's asset turnover and meets
\* each of the other eight criteria
C29_Witness ==
    /\ pc = "fscore_done"
    /\ IsNull(df.rows[1].asset_turnover_prev)
    /\ \A c \in Criteria \ {"asset_turnover"} : Satisfied(df.rows[1], c)
    /\ IsNull(df.rows[1].f_score)

----------------------------------------------------------------------------
(* csv_exporter.py: two calls of export_to_csv into one output directory *)

\* export_to_csv is called once more, with another table and the same
\* output_dir; the directory keeps what the first call left in it.  The
\* name of the new file is taken from datetime.now() when the call runs.
CallExportAgain ==
    /\ pc = "done"
    /\ Len(csvFiles) = 1
    /\ \E n \in 1..MaxTableRows :
          \E ts \in [1..n -> CsvTickers], caps \in [1..n -> {Null, Num(10)}] :
              df' = [columns |-> CsvColumns,
                     rows |-> [i \in 1..n |->
                                  [ticker |-> Str(ts[i]), market_cap |-> caps[i]]]]
    /\ pc' = "export"
    /\ UNCHANGED <<tsv, limit, include_etf, tickers, idx, ticker_data_list, fetched,
                   max_retries, attempt, history, slept, result, returned, output,
                   csvFiles, exitStatus>>

NextTwoExports ==
    \/ ExportToCsv
    \/ CallExportAgain

SpecTwoExports == InitRoundTrip /\ [][NextTwoExports]_vars

\* two calls of export_to_csv have returned
TwoExportsDone == pc = "done" /\ Len(csvFiles) = 2

\* C30: after two successful calls of export_to_csv into the same output
\* directory the directory holds two distinct CSV files, the earlier one
\* still with the table of the first call and the later one with the table
\* of the second call.
C30_EachExportKeepsItsFile ==
    TwoExportsDone =>
        /\ Cardinality(DOMAIN output.files) = 2
        /\ \E first, second \in DOMAIN output.files :
              /\ first # second
              /\ output.files[first] = csvFiles[1]
              /\ output.files[second] = csvFiles[2]

\* C30, the part that holds: the table of the second call is always in the
\* directory, and the table of the first call is in another file of the
\* directory unless the two names, which carry the clock cut to whole
\* seconds, are the same; then one file is left and it holds the second table
C30_KeptUnlessSameSecond ==
    TwoExportsDone =>
        \/ /\ Cardinality(DOMAIN output.files) = 2
           /\ \E first, second \in DOMAIN output.files :
                 /\ first # second
                 /\ output.files[first] = csvFiles[1]
                 /\ output.files[second] = csvFiles[2]
        \/ /\ Cardinality(DOMAIN output.files) = 1
           /\ \A name \in DOMAIN output.files : output.files[name] = csvFiles[2]

\* two calls have returned, the second with a table other than the first,
\* and the directory holds one file
C30_Overwritten ==
    /\ TwoExportsDone
    /\ csvFiles[1] # csvFiles[2]
    /\ Cardinality(DOMAIN output.files) = 1

====
